---- MODULE Spec2Model ----
(***************************************************************************)
(* A model of expr-cpp: the precedence-climbing parser (src/src/parser.cpp)*)
(* and the tree-walking evaluator with its scope stack and control-flow    *)
(* signals (src/src/eval.cpp, src/include/object.h, src/src/object.cpp).   *)
(*                                                                         *)
(* The evaluator's functions call one another recursively.  The model      *)
(* keeps the C++ call stack as the variable stack: one activation for each *)
(* call of an eval overload or of eval_call that has not returned, with    *)
(* the place it has reached and its locals.  A step runs the topmost       *)
(* activation from that place to its next call or to its return.  A thrown *)
(* exception sets the err field of the Context and unwinds the whole       *)
(* stack: the evaluator has no handler, and no destructor pops a frame.    *)
(***************************************************************************)
EXTENDS Integers, Sequences, FiniteSets, TLC

VARIABLES prog, ctx, stack, ret, result, flows, last, steps,
          ptoks, ptree, parsed, psrc, tokenizer

vars ==
    <<prog, ctx, stack, ret, result, flows, last, steps, ptoks, ptree, parsed, psrc,
      tokenizer>>

evalVars == <<prog, ctx, stack, ret, result, flows, last, steps>>

parseVars == <<ptoks, ptree, parsed, psrc, tokenizer>>

(***************************************************************************)
(* Bounds of the model.                                                    *)
(***************************************************************************)
\* steps of for statements and of eval_call one evaluation may take
MaxSteps == 800

\* statements of a generated program, before its final return
MaxStmts == 2

\* binary operators of a generated expression
MaxOps == 2

\* statements parse() may take from one text
MaxRounds == 5

\* bytes of a generated text
MaxText == 3

\* calls of next() that read nothing, of one Tokenizer
MaxCalls == 3

\* lexemes of a text written from lexemes
MaxLexemes == 2

\* characters and escapes of a string literal
MaxPieces == 2

(***************************************************************************)
(* AST nodes (src/include/ast.h).  A null unique_ptr is the node nullptr.  *)
(***************************************************************************)
nullptr == [kind |-> "nullptr"]

NullLiteral == [kind |-> "LiteralExpr", literal_kind |-> "Null"]

BooleanLiteral(value) == [kind |-> "LiteralExpr", literal_kind |-> "Boolean", b |-> value]

IntegerLiteral(value) == [kind |-> "LiteralExpr", literal_kind |-> "Integer", i |-> value]

\* the double value is the quotient n / d, in lowest terms
FloatLiteral(n, d) == [kind |-> "LiteralExpr", literal_kind |-> "Float", n |-> n, d |-> d]

StringLiteral(value) == [kind |-> "LiteralExpr", literal_kind |-> "String", s |-> value]

VariableExpression(name) == [kind |-> "VariableExpr", name |-> name]

EnvVariableExpression(name) == [kind |-> "EnvVariableExpr", name |-> name]

BinaryExpression(op, left, right) ==
    [kind |-> "BinaryExpr", op |-> op, left |-> left, right |-> right]

PrefixExpression(op, expr) == [kind |-> "PrefixExpr", op |-> op, expr |-> expr]

PostfixExpression(op, expr) == [kind |-> "PostfixExpr", op |-> op, expr |-> expr]

ArrayExpression(elements) == [kind |-> "ArrayExpr", elements |-> elements]

IndexExpression(expr, index) == [kind |-> "IndexExpr", expr |-> expr, index |-> index]

CallExpression(callee, args) == [kind |-> "CallExpr", callee |-> callee, args |-> args]

EmptyStatement == [kind |-> "EmptyStmt"]

LetStatement(name, value) == [kind |-> "LetStmt", name |-> name, value |-> value]

ExpressionStatement(expr) == [kind |-> "ExprStmt", expr |-> expr]

BlockStatement(statements) == [kind |-> "BlockStmt", statements |-> statements]

IfStatement(condition, then_branch, else_branch) ==
    [kind |-> "IfStmt", condition |-> condition, then_branch |-> then_branch,
     else_branch |-> else_branch]

ForStatement(initializer, condition, increment, body) ==
    [kind |-> "ForStmt", initializer |-> initializer, condition |-> condition,
     increment |-> increment, body |-> body]

ReturnStatement(value) == [kind |-> "ReturnStmt", value |-> value]

BreakStatement == [kind |-> "BreakStmt"]

ContinueStatement == [kind |-> "ContinueStmt"]

FnStatement(name, params, body) ==
    [kind |-> "FnStmt", name |-> name, params |-> params, body |-> body]

Program(statements, functions) == [statements |-> statements, functions |-> functions]

(***************************************************************************)
(* Objects and Values (src/include/object.h, src/src/object.cpp).  A Value *)
(* is a shared_ptr<Object>: here the index of the Object in ctx.heap.  Two *)
(* Values with the same index are the same Object.                         *)
(***************************************************************************)
Null == [kind |-> "Null"]

Boolean(value) == [kind |-> "Boolean", b |-> value]

Integer(value) == [kind |-> "Integer", i |-> value]

RECURSIVE gcd(_, _)
gcd(a, b) == IF b = 0 THEN a ELSE gcd(b, a % b)

\* a double: the quotient n / d in lowest terms with d > 0; d = 0 for what a
\* division by 0.0 gives, an infinity (n = 1 or -1) or NaN (n = 0).  The
\* rounding of a double is not modelled.
Float(n, d) ==
    LET g == gcd(IF n < 0 THEN -n ELSE n, IF d < 0 THEN -d ELSE d)
        sign == IF d < 0 THEN -1 ELSE 1
    IN IF g = 0 THEN [kind |-> "Float", n |-> 0, d |-> 0]
       ELSE [kind |-> "Float", n |-> (sign * n) \div g, d |-> (sign * d) \div g]

\* double(i) of an Integer, and a Float as it is
double(obj) == IF obj.kind = "Integer" THEN Float(obj.i, 1) ELSE obj

\* the operands of an arithmetic operator that is computed in double
Promoted(this, other) ==
    /\ {this.kind, other.kind} \subseteq {"Integer", "Float"}
    /\ "Float" \in {this.kind, other.kind}

\* operator== and operator> of two doubles: both are false of a NaN
float_compare(a, b) ==
    LET l == IF a.d = 0 /\ b.d = 0 THEN a.n ELSE a.n * b.d
        r == IF a.d = 0 /\ b.d = 0 THEN b.n ELSE b.n * a.d
    IN IF (a.n = 0 /\ a.d = 0) \/ (b.n = 0 /\ b.d = 0) THEN "Less"
       ELSE IF l = r THEN "Equal"
       ELSE IF l > r THEN "Greater" ELSE "Less"

String(value) == [kind |-> "String", s |-> value]

UserFunction(name) == [kind |-> "UserFunction", name |-> name]

\* the result of an expression: the Context it leaves and the Value
ER(c, v) == [c |-> c, v |-> v]

\* throw: the exception's message is kept in the Context; no frame is popped
Throw(c, msg) == [c EXCEPT !.err = msg]

Failed(c) == c.err # ""

\* std::make_shared<T>(...) wrapped in a Value: a new Object, never shared yet
Value(c, obj) == ER([c EXCEPT !.heap = Append(@, obj)], Len(c.heap) + 1)

(***************************************************************************)
(* Stack and Context (src/include/object.h, the eval.h part).              *)
(***************************************************************************)
StackFrame == [n \in {} |-> 0]

Stack == <<StackFrame>>

enter_scope(c) == [c EXCEPT !.frames = Append(@, StackFrame)]

level_scope(c) == [c EXCEPT !.frames = SubSeq(@, 1, Len(@) - 1)]

\* unordered_map::insert: an existing key keeps its value
insert(frames, name, value) ==
    [frames EXCEPT ![Len(frames)] =
        IF name \in DOMAIN @ THEN @ ELSE (name :> value) @@ @]

insert_variable(c, name, value) == [c EXCEPT !.frames = insert(@, name, value)]

\* the innermost frame that declares name, 0 when none does
FrameOf(frames, name) ==
    LET S == {i \in 1..Len(frames) : name \in DOMAIN frames[i]}
    IN IF S = {} THEN 0 ELSE CHOOSE i \in S : \A j \in S : j <= i

lookup(frames, name) ==
    LET i == FrameOf(frames, name)
    IN IF i = 0 THEN 0 ELSE frames[i][name]

\* set with the frames searched from the outermost: begin() for rbegin()
set_outermost(frames, name, value) ==
    LET i == CHOOSE j \in 1..Len(frames) :
                 /\ name \in DOMAIN frames[j]
                 /\ \A k \in 1..(j - 1) : name \notin DOMAIN frames[k]
    IN [frames EXCEPT ![i] = [@ EXCEPT ![name] = value]]

set(frames, name, value) ==
    LET i == FrameOf(frames, name)
    IN [frames EXCEPT ![i] = [@ EXCEPT ![name] = value]]

\* Context(program): every declared function is bound in the outermost frame
RECURSIVE bind_functions(_, _)
bind_functions(c, names) ==
    IF names = {} THEN c
    ELSE LET name == CHOOSE n \in names : TRUE
             fn == Value(c, UserFunction(name))
         IN bind_functions(insert_variable(fn.c, name, fn.v), names \ {name})

\* Context::define(name, value): insert_or_assign into m_environment
define(c, name, obj) ==
    LET value == Value(c, obj)
    IN [value.c EXCEPT !.env = (name :> value.v) @@ @]

\* writes is history: the frame and name of every binding that an assignment
\* or a postfix operator has been applied to, in order
Context(program) ==
    bind_functions([program |-> program, frames |-> Stack, heap |-> <<>>,
                    env |-> StackFrame, err |-> "", writes |-> <<>>],
                   DOMAIN program.functions)

get_variable(c, name) ==
    LET var == lookup(c.frames, name)
    IN IF var # 0 THEN ER(c, var)
       ELSE IF name \in DOMAIN c.env THEN ER(c, c.env[name])
       ELSE ER(Throw(c, "Variable not found"), 0)

Written(c, name) ==
    [c EXCEPT !.writes = Append(@, [frame |-> FrameOf(c.frames, name), name |-> name])]

set_variable(c, name, value) ==
    IF FrameOf(c.frames, name) = 0 THEN Throw(c, "Variable not found")
    ELSE [Written(c, name) EXCEPT !.frames = set(@, name, value)]

get_env_variable(c, name) ==
    IF name \in DOMAIN c.env THEN ER(c, c.env[name])
    ELSE ER(Throw(c, "Variable not found"), 0)

get_function(c, name) ==
    IF name \in DOMAIN c.program.functions THEN c.program.functions[name] ELSE nullptr

(***************************************************************************)
(* Arithmetic and comparison of Objects (src/src/object.cpp).  An          *)
(* operation returns the Object it makes, or InvalidOperate for the throw  *)
(* of the base class.                                                      *)
(***************************************************************************)
InvalidOperate == [kind |-> "InvalidOperate"]

\* C++ integer division truncates toward zero; % takes the dividend's sign
TruncDiv(a, b) ==
    LET q == (IF a < 0 THEN -a ELSE a) \div (IF b < 0 THEN -b ELSE b)
    IN IF (a < 0) = (b < 0) THEN q ELSE -q

TruncMod(a, b) == a - TruncDiv(a, b) * b

\* a division of Integers by zero is undefined behaviour: the process traps
DivideError == [kind |-> "DivideError"]

Object_add(this, other) ==
    CASE this.kind = "Integer" /\ other.kind = "Integer" -> Integer(this.i + other.i)
      [] this.kind = "String" /\ other.kind = "String" -> String(this.s \o other.s)
      [] Promoted(this, other) ->
            Float(double(this).n * double(other).d + double(other).n * double(this).d,
                  double(this).d * double(other).d)
      [] OTHER -> InvalidOperate

Object_sub(this, other) ==
    CASE this.kind = "Integer" /\ other.kind = "Integer" -> Integer(this.i - other.i)
      [] Promoted(this, other) ->
            Float(double(this).n * double(other).d - double(other).n * double(this).d,
                  double(this).d * double(other).d)
      [] OTHER -> InvalidOperate

Object_mul(this, other) ==
    CASE this.kind = "Integer" /\ other.kind = "Integer" -> Integer(this.i * other.i)
      [] Promoted(this, other) ->
            Float(double(this).n * double(other).n, double(this).d * double(other).d)
      [] OTHER -> InvalidOperate

\* the quotient rounded toward minus infinity
FloorDiv(a, b) == IF b > 0 THEN a \div b ELSE (-a) \div (-b)

\* Integer::div with the quotient rounded down, not truncated
Object_div_floor(this, other) ==
    CASE this.kind = "Integer" /\ other.kind = "Integer" ->
            IF other.i = 0 THEN DivideError ELSE Integer(FloorDiv(this.i, other.i))
      [] Promoted(this, other) ->
            Float(double(this).n * double(other).d, double(this).d * double(other).n)
      [] OTHER -> InvalidOperate

Object_div(this, other) ==
    CASE this.kind = "Integer" /\ other.kind = "Integer" ->
            IF other.i = 0 THEN DivideError ELSE Integer(TruncDiv(this.i, other.i))
      [] Promoted(this, other) ->
            Float(double(this).n * double(other).d, double(this).d * double(other).n)
      [] OTHER -> InvalidOperate

Object_mod(this, other) ==
    CASE this.kind = "Integer" /\ other.kind = "Integer" ->
            IF other.i = 0 THEN DivideError ELSE Integer(TruncMod(this.i, other.i))
      [] OTHER -> InvalidOperate

\* std::string's operator== and operator> on sequences of character codes
RECURSIVE string_compare(_, _)
string_compare(a, b) ==
    IF a = <<>> /\ b = <<>> THEN "Equal"
    ELSE IF a = <<>> THEN "Less"
    ELSE IF b = <<>> THEN "Greater"
    ELSE IF Head(a) = Head(b) THEN string_compare(Tail(a), Tail(b))
    ELSE IF Head(a) > Head(b) THEN "Greater" ELSE "Less"

\* Equal, Less or Greater, or InvalidOperate for the throw
Object_compare(this, other) ==
    CASE this.kind = "Null" /\ other.kind = "Null" -> "Equal"
      [] this.kind = "Boolean" /\ other.kind = "Boolean" ->
            IF this.b = other.b THEN "Equal"
            ELSE IF this.b /\ ~other.b THEN "Greater" ELSE "Less"
      [] this.kind = "Integer" /\ other.kind = "Integer" ->
            IF this.i = other.i THEN "Equal"
            ELSE IF this.i > other.i THEN "Greater" ELSE "Less"
      [] this.kind = "String" /\ other.kind = "String" -> string_compare(this.s, other.s)
      [] Promoted(this, other) -> float_compare(double(this), double(other))
      [] OTHER -> "InvalidOperate"

\* logic_and and logic_or of two Objects
logic_and(this, other) ==
    IF this.kind = "Boolean" /\ other.kind = "Boolean" THEN Boolean(this.b /\ other.b)
    ELSE InvalidOperate

logic_or(this, other) ==
    IF this.kind = "Boolean" /\ other.kind = "Boolean" THEN Boolean(this.b \/ other.b)
    ELSE InvalidOperate

(***************************************************************************)
(* The call stack of the Evaluator (src/src/eval.cpp).  eval is overloaded *)
(* in the source; each overload is eval_<the type of its parameter> here,  *)
(* a function of the Context c, the call stack s and what the callee gave  *)
(* back, r; it gives the three as the step leaves them.                    *)
(***************************************************************************)
\* what the topmost activation is handed: nothing (it has just been called),
\* the Value of the expression or the ControlFlow of the statement it called
NoValue == [tag |-> "call", k |-> "None", v |-> 0]

ValueResult(v) == [tag |-> "value", k |-> "None", v |-> v]

ControlFlow(k, v) == [tag |-> "flow", k |-> k, v |-> v]

\* the frames of the scope stack with the Object in place of each Value
Deref(c) ==
    [j \in 1..Len(c.frames) |->
        [n \in DOMAIN c.frames[j] |-> c.heap[c.frames[j][n]]]]

\* an activation: the function, the node it evaluates, the place reached, its
\* loop index and the Values it holds.  pre, old and w are history: the frames
\* and their Objects, and the number of writes, when it was called
Activation(fn, node, c) ==
    [fn |-> fn, node |-> node, at |-> "start", i |-> 1, vals |-> <<>>,
     pre |-> c.frames, old |-> Deref(c), w |-> Len(c.writes)]

Top(s) == s[Len(s)]

Pop(s) == SubSeq(s, 1, Len(s) - 1)

Goto(s, at) == [s EXCEPT ![Len(s)].at = at]

\* the topmost activation goes to `at` and calls eval(node): the switch of
\* eval(Statement&) and eval(Expression&) picks the overload by node.kind
call(c, s, at, node) ==
    [c |-> c, s |-> Append(Goto(s, at), Activation(node.kind, node, c)), r |-> NoValue]

return(c, s, r) == [c |-> c, s |-> Pop(s), r |-> r]

\* return an expression's Value, or pass on the throw of the operation that made it
return_value(s, value) == [c |-> value.c, s |-> Pop(s), r |-> ValueResult(value.v)]

throw(c, s, msg) == [c |-> Throw(c, msg), s |-> s, r |-> NoValue]

\* eval() with the test kind() == Return slackened to kind() != None
eval_any_signal(c, s, r) ==
    LET top == Top(s)
        statements == c.program.statements
    IN IF r.tag = "flow" /\ r.k # "None" THEN return(c, s, ValueResult(r.v))
       ELSE IF top.i > Len(statements) THEN return_value(s, Value(c, Null))
       ELSE call(c, [s EXCEPT ![Len(s)].i = @ + 1], "loop", statements[top.i])

\* Evaluator::eval(): the loop over the top-level statements
eval(c, s, r) ==
    LET top == Top(s)
        statements == c.program.statements
    IN IF r.tag = "flow" /\ r.k = "Return" THEN return(c, s, ValueResult(r.v))
       ELSE IF top.i > Len(statements) THEN return_value(s, Value(c, Null))
       ELSE call(c, [s EXCEPT ![Len(s)].i = @ + 1], "loop", statements[top.i])

\* the cases of eval(Statement&) that call no overload
eval_Statement(c, s, r) ==
    LET statement == Top(s).node
    IN CASE statement.kind = "BreakStmt" -> return(c, s, ControlFlow("Break", 0))
         [] statement.kind = "ContinueStmt" -> return(c, s, ControlFlow("Continue", 0))
         [] statement.kind = "EmptyStmt" -> return(c, s, ControlFlow("None", 0))
         [] OTHER -> throw(c, s, "unimplemented eval")

eval_ReturnStatement(c, s, r) ==
    LET statement == Top(s).node
    IN IF Top(s).at = "value" THEN return(c, s, ControlFlow("Return", r.v))
       ELSE IF statement.value # nullptr THEN call(c, s, "value", statement.value)
       ELSE LET value == Value(c, Null)
            IN return(value.c, s, ControlFlow("Return", value.v))

eval_LetStatement(c, s, r) ==
    LET statement == Top(s).node
    IN IF Top(s).at = "value"
       THEN return(insert_variable(c, statement.name, r.v), s, ControlFlow("None", 0))
       ELSE IF statement.value # nullptr THEN call(c, s, "value", statement.value)
       ELSE LET value == Value(c, Null)
            IN return(insert_variable(value.c, statement.name, value.v), s,
                      ControlFlow("None", 0))

eval_IfStatement(c, s, r) ==
    LET statement == Top(s).node
    IN CASE Top(s).at = "start" -> call(c, s, "condition", statement.condition)
         [] Top(s).at = "condition" ->
              IF c.heap[r.v].kind # "Boolean" THEN throw(c, s, "InvalidOperate")
              ELSE IF c.heap[r.v].b THEN call(c, s, "branch", statement.then_branch)
              ELSE IF statement.else_branch # nullptr
              THEN call(c, s, "branch", statement.else_branch)
              ELSE return(c, s, ControlFlow("None", 0))
         [] Top(s).at = "branch" -> return(c, s, r)

\* while (true), from its top
for_loop(c, s) ==
    LET statement == Top(s).node
    IN IF statement.condition # nullptr THEN call(c, s, "condition", statement.condition)
       ELSE call(c, s, "body", statement.body)

\* eval(ForStatement&) with Continue going straight back to the top of the loop
eval_ForStatement_continue(c, s, r) ==
    LET statement == Top(s).node
    IN CASE Top(s).at = "start" ->
              IF statement.initializer # nullptr
              THEN call(c, s, "initializer", statement.initializer)
              ELSE for_loop(c, s)
         [] Top(s).at = "initializer" -> for_loop(c, s)
         [] Top(s).at = "condition" ->
              LET cmp == Object_compare(Boolean(TRUE), c.heap[r.v])
              IN IF cmp = "InvalidOperate" THEN throw(c, s, "InvalidOperate")
                 ELSE IF cmp # "Equal" THEN return(c, s, ControlFlow("None", 0))
                 ELSE call(c, s, "body", statement.body)
         [] Top(s).at = "body" ->
              IF r.k = "Break" THEN return(c, s, ControlFlow("None", 0))
              ELSE IF r.k = "Return" THEN return(c, s, r)
              ELSE IF r.k = "Continue" THEN for_loop(c, s)
              ELSE IF statement.increment # nullptr
              THEN call(c, s, "increment", statement.increment)
              ELSE for_loop(c, s)
         [] Top(s).at = "increment" -> for_loop(c, s)

\* eval(ForStatement&) with Break handed on to the caller as it came
eval_ForStatement_break(c, s, r) ==
    LET statement == Top(s).node
    IN CASE Top(s).at = "start" ->
              IF statement.initializer # nullptr
              THEN call(c, s, "initializer", statement.initializer)
              ELSE for_loop(c, s)
         [] Top(s).at = "initializer" -> for_loop(c, s)
         [] Top(s).at = "condition" ->
              LET cmp == Object_compare(Boolean(TRUE), c.heap[r.v])
              IN IF cmp = "InvalidOperate" THEN throw(c, s, "InvalidOperate")
                 ELSE IF cmp # "Equal" THEN return(c, s, ControlFlow("None", 0))
                 ELSE call(c, s, "body", statement.body)
         [] Top(s).at = "body" ->
              IF r.k = "Break" THEN return(c, s, r)
              ELSE IF r.k = "Return" THEN return(c, s, r)
              ELSE IF statement.increment # nullptr
              THEN call(c, s, "increment", statement.increment)
              ELSE for_loop(c, s)
         [] Top(s).at = "increment" -> for_loop(c, s)

eval_ForStatement(c, s, r) ==
    LET statement == Top(s).node
    IN CASE Top(s).at = "start" ->
              IF statement.initializer # nullptr
              THEN call(c, s, "initializer", statement.initializer)
              ELSE for_loop(c, s)
         [] Top(s).at = "initializer" -> for_loop(c, s)
         [] Top(s).at = "condition" ->
              LET cmp == Object_compare(Boolean(TRUE), c.heap[r.v])
              IN IF cmp = "InvalidOperate" THEN throw(c, s, "InvalidOperate")
                 ELSE IF cmp # "Equal" THEN return(c, s, ControlFlow("None", 0))
                 ELSE call(c, s, "body", statement.body)
         [] Top(s).at = "body" ->
              IF r.k = "Break" THEN return(c, s, ControlFlow("None", 0))
              ELSE IF r.k = "Return" THEN return(c, s, r)
              ELSE IF statement.increment # nullptr
              THEN call(c, s, "increment", statement.increment)
              ELSE for_loop(c, s)
         [] Top(s).at = "increment" -> for_loop(c, s)

\* eval(BlockStatement&) without the level_scope() of the early exit
eval_BlockStatement_signal_keeps_frame(c, s, r) ==
    LET statement == Top(s).node
        c1 == IF Top(s).at = "start" THEN enter_scope(c) ELSE c
    IN IF Top(s).at = "loop" /\ r.k # "None" THEN return(c, s, r)
       ELSE IF Top(s).i > Len(statement.statements)
       THEN return(level_scope(c1), s, ControlFlow("None", 0))
       ELSE call(c1, [s EXCEPT ![Len(s)].i = @ + 1], "loop",
                 statement.statements[Top(s).i])

eval_BlockStatement(c, s, r) ==
    LET statement == Top(s).node
        c1 == IF Top(s).at = "start" THEN enter_scope(c) ELSE c
    IN IF Top(s).at = "loop" /\ r.k # "None" THEN return(level_scope(c), s, r)
       ELSE IF Top(s).i > Len(statement.statements)
       THEN return(level_scope(c1), s, ControlFlow("None", 0))
       ELSE call(c1, [s EXCEPT ![Len(s)].i = @ + 1], "loop",
                 statement.statements[Top(s).i])

eval_ExpressionStatement(c, s, r) ==
    IF Top(s).at = "expr" THEN return(c, s, ControlFlow("None", 0))
    ELSE call(c, s, "expr", Top(s).node.expr)

\* the default case of eval(Expression&)
eval_Expression(c, s, r) == throw(c, s, "unimplemented for eval")

eval_LiteralExpression(c, s, r) ==
    LET literal == Top(s).node
    IN CASE literal.literal_kind = "Null" -> return_value(s, Value(c, Null))
         [] literal.literal_kind = "Boolean" -> return_value(s, Value(c, Boolean(literal.b)))
         [] literal.literal_kind = "Integer" -> return_value(s, Value(c, Integer(literal.i)))
         [] literal.literal_kind = "Float" ->
              return_value(s, Value(c, Float(literal.n, literal.d)))
         [] literal.literal_kind = "String" -> return_value(s, Value(c, String(literal.s)))
         [] OTHER -> throw(c, s, "Invalid literal kind")

eval_VariableExpression(c, s, r) == return_value(s, get_variable(c, Top(s).node.name))

eval_EnvVariableExpression(c, s, r) ==
    return_value(s, get_env_variable(c, Top(s).node.name))

\* the Object an arithmetic or logic operator makes, as a new Value, or its throw
ObjectResult(c, obj) ==
    IF obj.kind = "InvalidOperate" THEN ER(Throw(c, "InvalidOperate"), 0)
    ELSE IF obj.kind = "DivideError" THEN ER(Throw(c, "SIGFPE"), 0)
    ELSE Value(c, obj)

\* a comparison operator: ok is the set of Comparison results that make it true
CompareResult(c, cmp, ok) ==
    IF cmp = "InvalidOperate" THEN ER(Throw(c, "InvalidOperate"), 0)
    ELSE Value(c, Boolean(cmp \in ok))

\* case Operator::Assign of eval(BinaryExpression&)
assign(expression, c, rhs) ==
    IF expression.left.kind = "VariableExpr"
    THEN ER(set_variable(c, expression.left.name, rhs), rhs)
    ELSE ER(Throw(c, "Invalid assignment target"), 0)

\* what an Integer division or modulo by zero does is undefined: the process
\* is ended by the signal SIGFPE, or the operation gives a number, 0 standing
\* for any
DivisionsByZero == {"SIGFPE", "number"}

\* the step n of eval(BinaryExpression&) from c and s, a division by zero in it
\* having the outcome undefined
divided(n, c, s, undefined) ==
    IF n.c.err = "SIGFPE" /\ undefined = "number" THEN return_value(s, Value(c, Integer(0)))
    ELSE n

\* the switch of eval(BinaryExpression&) on the two operands' Values
binary(expression, c, lhs, rhs) ==
    LET l == c.heap[lhs]
        r == c.heap[rhs]
        op == expression.op
    IN CASE op = "Add" -> ObjectResult(c, Object_add(l, r))
         [] op = "Subtract" -> ObjectResult(c, Object_sub(l, r))
         [] op = "Multiply" -> ObjectResult(c, Object_mul(l, r))
         [] op = "Divide" -> ObjectResult(c, Object_div(l, r))
         [] op = "Modulo" -> ObjectResult(c, Object_mod(l, r))
         [] op = "Equals" -> CompareResult(c, Object_compare(l, r), {"Equal"})
         [] op = "NotEquals" -> CompareResult(c, Object_compare(l, r), {"Less", "Greater"})
         [] op = "GreaterThan" -> CompareResult(c, Object_compare(l, r), {"Greater"})
         [] op = "GreaterThanOrEqual" ->
               CompareResult(c, Object_compare(l, r), {"Equal", "Greater"})
         [] op = "LessThan" -> CompareResult(c, Object_compare(l, r), {"Less"})
         [] op = "LessThanOrEqual" ->
               CompareResult(c, Object_compare(l, r), {"Equal", "Less"})
         [] op = "LogicAnd" -> ObjectResult(c, logic_and(l, r))
         [] op = "LogicOr" -> ObjectResult(c, logic_or(l, r))
         [] op = "Assign" -> assign(expression, c, rhs)
         [] OTHER -> ER(Throw(c, "InvalidOperate"), 0)

\* eval(BinaryExpression&) with && and || short-circuited: a left operand that
\* decides the result is returned and the right operand is not evaluated
eval_BinaryExpression_short_circuit(c, s, r) ==
    LET expression == Top(s).node
        decided == \/ expression.op = "LogicAnd" /\ c.heap[r.v] = Boolean(FALSE)
                   \/ expression.op = "LogicOr" /\ c.heap[r.v] = Boolean(TRUE)
    IN CASE Top(s).at = "start" -> call(c, s, "left", expression.left)
         [] Top(s).at = "left" ->
              IF decided THEN return_value(s, ER(c, r.v))
              ELSE call(c, [s EXCEPT ![Len(s)].vals = <<r.v>>], "right", expression.right)
         [] Top(s).at = "right" ->
              return_value(s, binary(expression, c, Top(s).vals[1], r.v))

eval_BinaryExpression(c, s, r) ==
    LET expression == Top(s).node
    IN CASE Top(s).at = "start" -> call(c, s, "left", expression.left)
         [] Top(s).at = "left" ->
              call(c, [s EXCEPT ![Len(s)].vals = <<r.v>>], "right", expression.right)
         [] Top(s).at = "right" ->
              return_value(s, binary(expression, c, Top(s).vals[1], r.v))

\* the switch of eval(PrefixExpression&) on the operand's Value
prefix(expression, c, value) ==
    LET obj == c.heap[value]
    IN IF expression.op = "Subtract" /\ obj.kind = "Integer"
       THEN Value(c, Integer(-obj.i))
       ELSE IF expression.op = "Subtract" /\ obj.kind = "Float"
       THEN Value(c, Float(-obj.n, obj.d))
       ELSE IF expression.op = "Not" /\ obj.kind = "Boolean"
       THEN Value(c, Boolean(~obj.b))
       ELSE ER(Throw(c, "InvalidOperate"), 0)

eval_PrefixExpression(c, s, r) ==
    IF Top(s).at = "expr" THEN return_value(s, prefix(Top(s).node, c, r.v))
    ELSE call(c, s, "expr", Top(s).node.expr)

\* postfix as in C: the variable is changed and the expression gives a new
\* Value holding the number from before
postfix_yields_old(expression, c, value) ==
    LET obj == c.heap[value]
        d == IF expression.op = "Increase" THEN 1 ELSE -1
        before == Value(c, obj)
    IN IF expression.op \notin {"Increase", "Decrease"} \/ obj.kind # "Integer"
       THEN ER(Throw(c, "InvalidOperate"), 0)
       ELSE IF expression.expr.kind # "VariableExpr"
       THEN ER(Throw(c, "std::bad_cast"), 0)
       ELSE ER([Written(before.c, expression.expr.name) EXCEPT
                    !.heap[value] = Integer(obj.i + d)], before.v)

\* the switch of eval(PostfixExpression&): value.as_integer() = value.as_integer()
\* + 1 changes the Object that value shares with every other holder of it
postfix(expression, c, value) ==
    LET obj == c.heap[value]
        d == IF expression.op = "Increase" THEN 1 ELSE -1
    IN IF expression.op \notin {"Increase", "Decrease"} \/ obj.kind # "Integer"
       THEN ER(Throw(c, "InvalidOperate"), 0)
       ELSE IF expression.expr.kind # "VariableExpr"
       THEN ER(Throw(c, "std::bad_cast"), 0)
       ELSE ER([Written(c, expression.expr.name) EXCEPT
                    !.heap[value] = Integer(obj.i + d)], value)

eval_PostfixExpression(c, s, r) ==
    IF Top(s).at = "expr" THEN return_value(s, postfix(Top(s).node, c, r.v))
    ELSE call(c, s, "expr", Top(s).node.expr)

\* vals holds the callee's Value, then the Values of the arguments evaluated
eval_CallExpression(c, s, r) ==
    LET expression == Top(s).node
        vals == Append(Top(s).vals, r.v)
        s1 == [s EXCEPT ![Len(s)].vals = vals]
        callee == c.heap[vals[1]]
        fn_stmt == get_function(c, callee.name)
    IN CASE Top(s).at = "start" -> call(c, s, "callee", expression.callee)
         [] Top(s).at \in {"callee", "args"} ->
              IF callee.kind # "UserFunction" THEN throw(c, s, "Invalid call")
              ELSE IF Len(vals) <= Len(expression.args)
              THEN call(c, s1, "args", expression.args[Len(vals)])
              ELSE IF fn_stmt = nullptr THEN throw(c, s, "Function not found")
              ELSE [c |-> c, r |-> NoValue,
                    s |-> Append(Goto(s1, "eval_call"),
                                 [Activation("eval_call", fn_stmt, c) EXCEPT
                                      !.vals = Tail(vals)])]
         [] Top(s).at = "eval_call" -> return(c, s, r)

\* bind fn.params()[i] to args[i] for the parameters from the i-th on
RECURSIVE bind_params(_, _, _, _)
bind_params(fn, args, i, c) ==
    IF i > Len(fn.params) THEN c
    ELSE bind_params(fn, args, i + 1, insert_variable(c, fn.params[i], args[i]))

\* eval_call binding the parameters in the caller's frame: no enter_scope and
\* no level_scope
eval_call_in_callers_frame(c, s, r) ==
    LET fn == Top(s).node
        args == Top(s).vals
    IN IF Top(s).at = "start"
       THEN IF Len(fn.params) # Len(args) THEN throw(c, s, "Invalid call for fn")
            ELSE call(bind_params(fn, args, 1, c), s, "body", fn.body)
       ELSE return_value(s, IF r.k = "Return" THEN ER(c, r.v) ELSE Value(c, Null))

\* eval_call with enter_scope moved above the test of the number of arguments
eval_call_scope_first(c, s, r) ==
    LET fn == Top(s).node
        args == Top(s).vals
        c1 == level_scope(c)
    IN IF Top(s).at = "start"
       THEN IF Len(fn.params) # Len(args)
            THEN throw(enter_scope(c), s, "Invalid call for fn")
            ELSE call(bind_params(fn, args, 1, enter_scope(c)), s, "body", fn.body)
       ELSE return_value(s, IF r.k = "Return" THEN ER(c1, r.v) ELSE Value(c1, Null))

\* eval_call handing a Break or Continue of the body on to its caller
eval_call_passes_signal(c, s, r) ==
    LET fn == Top(s).node
        args == Top(s).vals
        c1 == level_scope(c)
    IN IF Top(s).at = "start"
       THEN IF Len(fn.params) # Len(args) THEN throw(c, s, "Invalid call for fn")
            ELSE call(bind_params(fn, args, 1, enter_scope(c)), s, "body", fn.body)
       ELSE IF r.k \in {"Break", "Continue"} THEN return(c1, s, r)
       ELSE return_value(s, IF r.k = "Return" THEN ER(c1, r.v) ELSE Value(c1, Null))

eval_call(c, s, r) ==
    LET fn == Top(s).node
        args == Top(s).vals
        c1 == level_scope(c)
    IN IF Top(s).at = "start"
       THEN IF Len(fn.params) # Len(args) THEN throw(c, s, "Invalid call for fn")
            ELSE call(bind_params(fn, args, 1, enter_scope(c)), s, "body", fn.body)
       ELSE return_value(s, IF r.k = "Return" THEN ER(c1, r.v) ELSE Value(c1, Null))

(***************************************************************************)
(* The Parser (src/src/parser.cpp, src/include/parser.h).  A character is  *)
(* a string of length one; a Token is its kind and its text, the           *)
(* characters of its lexeme.  m_tokenizer is the Tokens the Tokenizer has  *)
(* still to give, the end-of-file Token after them; m_peek_token is        *)
(* nullptr once that one was read.  A result is the Parser as the call     *)
(* leaves it and the node made; a throw sets err.                          *)
(***************************************************************************)
Token(kind, text) == [kind |-> kind, text |-> text]

\* std::string(token->text)
RECURSIVE string(_)
string(text) == IF text = <<>> THEN "" ELSE Head(text) \o string(Tail(text))

Digits == <<"0", "1", "2", "3", "4", "5", "6", "7", "8", "9">>

\* std::stoll of a run of decimal digits
RECURSIVE stoll(_)
stoll(text) ==
    IF text = <<>> THEN 0
    ELSE LET d == text[Len(text)]
         IN stoll(SubSeq(text, 1, Len(text) - 1)) * 10
              + (CHOOSE v \in 0..9 : Digits[v + 1] = d)

\* std::stod of digits, a '.' and digits: the numerator over a power of ten
RECURSIVE stod(_, _)
stod(text, d) ==
    IF text[Len(text)] = "." THEN FloatLiteral(stoll(SubSeq(text, 1, Len(text) - 1)), 1)
    ELSE IF text[Len(text) - d] = "."
    THEN LET digits == SubSeq(text, 1, Len(text) - d - 1)
                          \o SubSeq(text, Len(text) - d + 1, Len(text))
             f == Float(stoll(digits), 10 ^ d)
         IN FloatLiteral(f.n, f.d)
    ELSE stod(text, d + 1)

Precedence ==
    [Lowest |-> 0, Assign |-> 1, LogicOr |-> 2, LogicAnd |-> 3, Equality |-> 4,
     Comparison |-> 5, Term |-> 6, Factor |-> 7, Prefix |-> 8, Postfix |-> 9,
     Call |-> 10, Index |-> 11, Access |-> 12, Primary |-> 13]

get_precedence(kind) ==
    CASE kind = "Assign" -> Precedence.Assign
      [] kind = "LogicOr" -> Precedence.LogicOr
      [] kind = "LogicAnd" -> Precedence.LogicAnd
      [] kind \in {"Equals", "NotEquals"} -> Precedence.Equality
      [] kind \in {"GreaterThan", "GreaterThanOrEqual", "LessThan", "LessThanOrEqual"} ->
            Precedence.Comparison
      [] kind \in {"Plus", "Minus"} -> Precedence.Term
      [] kind \in {"Star", "Slash", "Percent"} -> Precedence.Factor
      [] kind \in {"Increase", "Decrease"} -> Precedence.Postfix
      [] kind = "LParen" -> Precedence.Call
      [] kind = "LBracket" -> Precedence.Index
      [] kind = "Dot" -> Precedence.Access
      [] kind \in {"Undefined", "True", "False", "Integer", "Float", "String",
                   "Identifier"} -> Precedence.Primary
      [] OTHER -> Precedence.Lowest

BINARY_OPERATORS ==
    [Plus |-> "Add", Minus |-> "Subtract", Star |-> "Multiply", Slash |-> "Divide",
     Percent |-> "Modulo", Equals |-> "Equals", NotEquals |-> "NotEquals",
     GreaterThan |-> "GreaterThan", GreaterThanOrEqual |-> "GreaterThanOrEqual",
     LessThan |-> "LessThan", LessThanOrEqual |-> "LessThanOrEqual",
     LogicAnd |-> "LogicAnd", LogicOr |-> "LogicOr", Assign |-> "Assign",
     Dot |-> "Access"]

binary_operator(kind) ==
    IF kind \in DOMAIN BINARY_OPERATORS THEN BINARY_OPERATORS[kind] ELSE "Invalid"

\* m_peek_token after m_tokenizer.next() gave the next of tokens
Peeked(tokens) == IF tokens = <<>> THEN nullptr ELSE Head(tokens)

UndefinedReads == {"trap", "garbage"}

Parser(tokens, ub) ==
    [m_peek_token |-> Peeked(tokens),
     m_tokenizer |-> IF tokens = <<>> THEN <<>> ELSE Tail(tokens),
     err |-> "", ub |-> ub]

\* the process ended by a signal, not by an exception
Trapped(p) == p.err = "null pointer read"

\* token->kind
kind_of(token) ==
    IF token # nullptr THEN token.kind ELSE "Garbage"

peek_token(p) == p.m_peek_token

\* the Parser after next_token(); what it returns is peek_token before it
next_token(p) ==
    [p EXCEPT !.m_peek_token = Peeked(p.m_tokenizer),
              !.m_tokenizer = IF @ = <<>> THEN <<>> ELSE Tail(@)]

\* the format of the message reads next->kind and next->text: without a token
\* that is a read through a null pointer
consum_token(p, kind) ==
    LET curr == peek_token(p)
    IN IF curr = nullptr /\ p.ub = "trap" THEN Throw(next_token(p), "null pointer read")
       ELSE IF curr = nullptr \/ curr.kind # kind
       THEN Throw(next_token(p), "Expected token of kind")
       ELSE next_token(p)

\* the result of a parse function: the Parser it leaves and the node it made
PR(p, node) == [p |-> p, node |-> node]

RECURSIVE parse_expression_precedence(_, _), parse_infix_loop(_, _, _),
          parse_prefix_expression(_), parse_postfix_expression(_, _, _),
          parse_infix_expression(_, _, _), parse_primary(_),
          parse_list(_, _, _, _, _)

parse_expression(p) == parse_expression_precedence(p, Precedence.Lowest)

\* while (peek != nullptr) of parse_expression_precedence
parse_infix_loop(p, expr, precedence) ==
    IF peek_token(p) = nullptr THEN PR(p, expr)
    ELSE LET next_precedence == get_precedence(peek_token(p).kind)
             folded == parse_infix_expression(p, expr, next_precedence)
         IN IF next_precedence <= precedence THEN PR(p, expr)
            ELSE IF Failed(folded.p) THEN folded
            ELSE parse_infix_loop(folded.p, folded.node, precedence)

parse_expression_precedence(p, precedence) ==
    LET expr == parse_prefix_expression(p)
    IN IF Failed(expr.p) THEN expr
       ELSE parse_infix_loop(expr.p, expr.node, precedence)

parse_prefix_expression(p) ==
    LET peek == peek_token(p)
        expr == parse_expression(next_token(p))
    IN IF peek = nullptr
       THEN PR(Throw(p, "Expected token for prefix expression but got EOF"), nullptr)
       ELSE IF peek.kind = "Bang"
       THEN IF Failed(expr.p) THEN expr
            ELSE PR(expr.p, PrefixExpression("Not", expr.node))
       ELSE IF peek.kind = "Minus"
       THEN IF Failed(expr.p) THEN expr
            ELSE PR(expr.p, PrefixExpression("Subtract", expr.node))
       ELSE parse_primary(p)

\* the name of the Identifier token consumed
parse_identifier(p) ==
    LET token == peek_token(p)
        consumed == consum_token(p, "Identifier")
    IN PR(consumed, IF Failed(consumed) THEN "" ELSE string(token.text))

\* the elements from the next token up to the token of kind end, each parsed by
\* the function parse ("parse_expression" or "parse_identifier"); list holds
\* those parsed so far
parse_list(p, end, separator, parse, list) ==
    LET peek == peek_token(p)
        element == IF parse = "parse_identifier" THEN parse_identifier(p)
                   ELSE parse_expression(p)
        after == peek_token(element.p)
    IN IF peek = nullptr /\ p.ub = "trap" THEN PR(Throw(p, "null pointer read"), list)
       ELSE IF kind_of(peek) = end THEN PR(p, list)
       ELSE IF Failed(element.p) THEN PR(element.p, list)
       ELSE IF after = nullptr /\ p.ub = "trap"
       THEN PR(Throw(element.p, "null pointer read"), list)
       ELSE IF kind_of(after) = end THEN PR(element.p, Append(list, element.node))
       ELSE IF kind_of(after) # separator
       THEN PR(Throw(element.p, "Expected separator or end"), list)
       ELSE parse_list(next_token(element.p), end, separator, parse,
                       Append(list, element.node))

parse_postfix_expression(p, peek, expr) ==
    CASE peek.kind = "LBracket" ->
            LET index == parse_expression(consum_token(p, "LBracket"))
                closed == consum_token(index.p, "RBracket")
            IN IF Failed(index.p) THEN index
               ELSE PR(closed, IndexExpression(expr, index.node))
      [] peek.kind = "LParen" ->
            LET args == parse_list(consum_token(p, "LParen"), "RParen", "Comma",
                                   "parse_expression", <<>>)
                closed == consum_token(args.p, "RParen")
            IN IF Failed(args.p) THEN args
               ELSE PR(closed, CallExpression(expr, args.node))
      [] peek.kind = "Increase" ->
            PR(consum_token(p, "Increase"), PostfixExpression("Increase", expr))
      [] peek.kind = "Decrease" ->
            PR(consum_token(p, "Decrease"), PostfixExpression("Decrease", expr))
      [] OTHER -> PR(p, expr)

\* parse_infix_expression with the right operand parsed by parse_expression()
parse_infix_expression_lowest(p, expr, precedence) ==
    LET peek == peek_token(p)
        op == binary_operator(peek.kind)
        rhs == parse_expression(next_token(p))
    IN IF peek = nullptr THEN PR(p, expr)
       ELSE IF peek.kind \in {"LParen", "LBracket", "Increase", "Decrease"}
       THEN parse_postfix_expression(p, peek, expr)
       ELSE IF op = "Invalid" THEN PR(Throw(next_token(p), "Invalid binary operator"), expr)
       ELSE IF Failed(rhs.p) THEN rhs
       ELSE PR(rhs.p, BinaryExpression(op, expr, rhs.node))

parse_infix_expression(p, expr, precedence) ==
    LET peek == peek_token(p)
        op == binary_operator(peek.kind)
        rhs == parse_expression_precedence(next_token(p), precedence)
    IN IF peek = nullptr THEN PR(p, expr)
       ELSE IF peek.kind \in {"LParen", "LBracket", "Increase", "Decrease"}
       THEN parse_postfix_expression(p, peek, expr)
       ELSE IF op = "Invalid" THEN PR(Throw(next_token(p), "Invalid binary operator"), expr)
       ELSE IF Failed(rhs.p) THEN rhs
       ELSE PR(rhs.p, BinaryExpression(op, expr, rhs.node))

\* the for loop of case TokenKind::String: the characters of view to result.
\* A view that ends in a single backslash is never given: the Tokenizer ends a
\* String token at a quote that is not escaped
RECURSIVE unescape(_)
unescape(view) ==
    IF view = <<>> THEN <<>>
    ELSE IF Head(view) = "\\"
    THEN LET c == IF Len(view) > 1 THEN view[2] ELSE "\""
             pushed == CASE c = "n" -> <<"\n">>
                         [] c = "t" -> <<"\t">>
                         [] c = "r" -> <<"\r">>
                         [] c = "\\" -> <<"\\">>
                         [] OTHER -> <<"\\", c>>
         IN pushed \o <<c>> \o unescape(SubSeq(view, 3, Len(view)))
    ELSE <<Head(view)>> \o unescape(Tail(view))

parse_primary(p) ==
    LET peek == peek_token(p)
    IN IF peek = nullptr THEN PR(Throw(p, "Unexpected EOF"), nullptr)
       ELSE CASE peek.kind = "True" -> PR(next_token(p), BooleanLiteral(TRUE))
              [] peek.kind = "False" -> PR(next_token(p), BooleanLiteral(FALSE))
              [] peek.kind = "Undefined" -> PR(next_token(p), NullLiteral)
              [] peek.kind = "Integer" -> PR(next_token(p), IntegerLiteral(stoll(peek.text)))
              [] peek.kind = "Float" -> PR(next_token(p), stod(peek.text, 1))
              [] peek.kind = "String" ->
                    PR(next_token(p),
                       StringLiteral(unescape(SubSeq(peek.text, 2, Len(peek.text) - 1))))
              [] peek.kind = "Identifier" ->
                    PR(next_token(p), VariableExpression(string(peek.text)))
              [] peek.kind = "LParen" ->
                    LET expr == parse_expression(consum_token(p, "LParen"))
                    IN IF Failed(expr.p) THEN expr
                       ELSE PR(consum_token(expr.p, "RParen"), expr.node)
              [] peek.kind = "LBracket" ->
                    LET elements == parse_list(consum_token(p, "LBracket"), "RBracket",
                                               "Comma", "parse_expression", <<>>)
                    IN IF Failed(elements.p) THEN elements
                       ELSE PR(consum_token(elements.p, "RBracket"),
                               ArrayExpression(elements.node))
              [] OTHER -> PR(Throw(p, "unexpected token for primary expression"), nullptr)


(***************************************************************************)
(* The Tokenizer (src/src/tokenizer.cpp).  m_input is the text still to be *)
(* read, a sequence of bytes: ASCII characters, and the byte xFF that      *)
(* begins no character of any encoding.  On that byte std::mbrtoc32 gives  *)
(* (size_t)-1 and leaves ch unwritten; rc < 0 is never true of a size_t,   *)
(* so peek_char returns the uninitialised ch.  What that read yields is    *)
(* the parameter uninit of the functions here: any value, the same within *)
(* one call of next() and chosen anew for each.  A call gives the m_input  *)
(* it leaves and the Token it returns.                                     *)
(***************************************************************************)
\* the character of code 0
NUL == "\\0"

\* a byte that is no character
xFF == "\\xFF"

\* what the read of the uninitialised ch may yield: 0, or a character that is
\* not 0, "#" standing for them
Uninitialised == {NUL, "#"}

KEYWORDS ==
    [null |-> "Null", true |-> "True", false |-> "False", let |-> "Let", fn |-> "Fn",
     if |-> "If", else |-> "Else", for |-> "For", break |-> "Break",
     continue |-> "Continue", return |-> "Return"]

PUNCTUATIONS ==
    [c \in {",", ";", ".", "{", "[", "(", "}", "]", ")", ":"} |->
        CASE c = "," -> "Comma" [] c = ";" -> "Semicolon" [] c = "." -> "Dot"
          [] c = "{" -> "LBrace" [] c = "[" -> "LBracket" [] c = "(" -> "LParen"
          [] c = "}" -> "RBrace" [] c = "]" -> "RBracket" [] c = ")" -> "RParen"
          [] c = ":" -> "Colon"]

\* std::isdigit
isdigit == {Digits[i] : i \in DOMAIN Digits}

\* std::isalpha
isalpha ==
    {"a", "b", "c", "d", "e", "f", "g", "h", "i", "j", "k", "l", "m", "n", "o", "p",
     "q", "r", "s", "t", "u", "v", "w", "x", "y", "z",
     "A", "B", "C", "D", "E", "F", "G", "H", "I", "J", "K", "L", "M", "N", "O", "P",
     "Q", "R", "S", "T", "U", "V", "W", "X", "Y", "Z"}

\* std::isalnum(ch) || ch == '_'
isword == isalpha \cup isdigit \cup {"_"}

\* the result of a call: the m_input it leaves and the Token it returns
TR(m_input, token) == [m_input |-> m_input, token |-> token]

peek_char(m_input, uninit) ==
    IF m_input = <<>> THEN NUL ELSE IF Head(m_input) = xFF THEN uninit ELSE Head(m_input)

\* m_input after next_char(); what it returns is peek_char before it
next_char(m_input, uninit) == IF peek_char(m_input, uninit) = NUL THEN m_input ELSE Tail(m_input)

\* make_token(kind, start): the characters from start to where m_input begins
make_token(kind, start, m_input) ==
    TR(m_input, Token(kind, SubSeq(start, 1, Len(start) - Len(m_input))))

\* m_input after eat_while of the characters of the set predicate
RECURSIVE eat_while(_, _, _)
eat_while(m_input, predicate, uninit) ==
    IF peek_char(m_input, uninit) \notin predicate THEN m_input
    ELSE eat_while(next_char(m_input, uninit), predicate, uninit)

eat_env_variable(start, uninit) ==
    LET dollar == next_char(start, uninit)
        rest == eat_while(dollar, isword, uninit)
        s == string(SubSeq(dollar, 1, Len(dollar) - Len(rest)))
    IN IF peek_char(dollar, uninit) \notin isalpha \cup {"_"}
       THEN make_token("Invalid", start, dollar)
       ELSE IF s \in DOMAIN KEYWORDS THEN make_token("Invalid", start, rest)
       ELSE make_token("EnvVariable", start, rest)

eat_identifier(start, uninit) ==
    LET rest == eat_while(start, isword, uninit)
        s == string(SubSeq(start, 1, Len(start) - Len(rest)))
    IN IF s \in DOMAIN KEYWORDS THEN make_token(KEYWORDS[s], start, rest)
       ELSE make_token("Identifier", start, rest)

eat_number(start, uninit) ==
    LET digits == eat_while(start, isdigit, uninit)
    IN IF peek_char(digits, uninit) = "."
       THEN make_token("Float", start,
                       eat_while(next_char(digits, uninit), isdigit, uninit))
       ELSE make_token("Integer", start, digits)

\* the loop of eat_string: ch is the character next_char() gave last
RECURSIVE eat_string_loop(_, _, _, _, _)
eat_string_loop(start, m_input, ch, escaped, uninit) ==
    IF ch = NUL THEN TR(m_input, Token("Invalid", <<"Unclosed string literal">>))
    ELSE IF ch = "\"" /\ ~escaped THEN make_token("String", start, m_input)
    ELSE eat_string_loop(start, next_char(m_input, uninit), peek_char(m_input, uninit),
                         IF ch = "\\" THEN ~escaped ELSE FALSE, uninit)

eat_string(start, uninit) ==
    LET quote == next_char(start, uninit)
    IN eat_string_loop(start, next_char(quote, uninit), peek_char(quote, uninit), FALSE,
                       uninit)

\* a first character that may be followed by second to make the Token pair
eat_pair(start, second, pair, single, uninit) ==
    LET first == next_char(start, uninit)
    IN IF peek_char(first, uninit) = second
       THEN make_token(pair, start, next_char(first, uninit))
       ELSE make_token(single, start, first)

eat_punctuation(start, uninit) ==
    LET peek == peek_char(start, uninit)
    IN IF peek \in DOMAIN PUNCTUATIONS
       THEN make_token(PUNCTUATIONS[peek], start, next_char(start, uninit))
       ELSE CASE peek = "!" -> eat_pair(start, "=", "NotEquals", "Bang", uninit)
              [] peek = "=" -> eat_pair(start, "=", "Equals", "Assign", uninit)
              [] peek = ">" ->
                    eat_pair(start, "=", "GreaterThanOrEqual", "GreaterThan", uninit)
              [] peek = "<" -> eat_pair(start, "=", "LessThanOrEqual", "LessThan", uninit)
              [] peek = "+" -> eat_pair(start, "+", "Increase", "Plus", uninit)
              [] peek = "-" -> eat_pair(start, "-", "Decrease", "Minus", uninit)
              [] peek = "*" -> make_token("Star", start, next_char(start, uninit))
              [] peek = "/" -> make_token("Slash", start, next_char(start, uninit))
              [] peek = "%" -> make_token("Percent", start, next_char(start, uninit))
              [] peek = "&" -> eat_pair(start, "&", "LogicAnd", "Invalid", uninit)
              [] peek = "|" -> eat_pair(start, "|", "LogicOr", "Invalid", uninit)
              [] OTHER -> make_token("Invalid", start, start)

Eof == Token("Eof", <<>>)

\* Tokenizer::next()
RECURSIVE next(_, _)
next(m_input, uninit) ==
    LET peek == peek_char(m_input, uninit)
    IN IF m_input = <<>> THEN TR(m_input, Eof)
       ELSE IF peek = NUL THEN TR(m_input, Eof)
       ELSE IF peek \in {" ", "\t", "\n", "\r"} THEN next(next_char(m_input, uninit), uninit)
       ELSE IF peek = "$" THEN eat_env_variable(m_input, uninit)
       ELSE IF peek \in isdigit THEN eat_number(m_input, uninit)
       ELSE IF peek \in isalpha \cup {"_"} THEN eat_identifier(m_input, uninit)
       ELSE IF peek = "\"" THEN eat_string(m_input, uninit)
       ELSE eat_punctuation(m_input, uninit)

\* the Tokens m_tokenizer.next() gives the Parser up to end-of-file, for an
\* ASCII text, where no read is uninitialised; a Token that next() returns
\* without reading a character is returned by every later call as well, and
\* is the last one here: no parse function goes past it
RECURSIVE Tokens(_)
Tokens(m_input) ==
    LET r == next(m_input, NUL)
    IN IF r.token.kind = "Eof" THEN <<>>
       ELSE IF r.m_input = m_input THEN <<r.token>>
       ELSE <<r.token>> \o Tokens(r.m_input)

(***************************************************************************)
(* The statements of the Parser.  An exception thrown by one call passes   *)
(* through the calls after it: expect and parse_after do nothing to a      *)
(* Parser that has thrown.  A loop whose body reads no token and throws    *)
(* nothing meets the same Parser again and again, each round appending one *)
(* statement to its vector: the err "loops" stands for that.               *)
(***************************************************************************)
expect(p, kind) == IF Failed(p) THEN p ELSE consum_token(p, kind)

parse_after(p) == IF Failed(p) THEN PR(p, nullptr) ELSE parse_expression(p)

Loops(p) == p.err = "loops"

\* auto v = ...; the rest of the function body reads v
Auto(v, rest(_)) == rest(v)

RECURSIVE parse_statement(_), parse_let_statement(_), parse_if_statement(_),
          parse_for_statement(_), parse_block_statement(_), parse_block_loop(_, _),
          parse_return_statement(_), parse_fn_statement(_)

parse_break_statement(p) ==
    PR(expect(consum_token(p, "Break"), "Semicolon"), BreakStatement)

parse_continue_statement(p) ==
    PR(expect(consum_token(p, "Continue"), "Semicolon"), ContinueStatement)

\* switch (m_peek_token->kind)
parse_statement(p) ==
    LET peek == peek_token(p)
        kind == kind_of(peek)
    IN IF Failed(p) THEN PR(p, nullptr)
       ELSE IF peek = nullptr /\ p.ub = "trap"
       THEN PR(Throw(p, "null pointer read"), nullptr)
       ELSE CASE kind = "Fn" -> parse_fn_statement(p)
              [] kind = "Let" -> parse_let_statement(p)
              [] kind = "If" -> parse_if_statement(p)
              [] kind = "For" -> parse_for_statement(p)
              [] kind = "Return" -> parse_return_statement(p)
              [] kind = "Break" -> parse_break_statement(p)
              [] kind = "Continue" -> parse_continue_statement(p)
              [] kind = "LBrace" -> parse_block_statement(p)
              [] kind = "Semicolon" -> PR(p, EmptyStatement)
              [] OTHER ->
                    Auto(parse_expression(p), LAMBDA expr :
                         PR(expect(expr.p, "Semicolon"), ExpressionStatement(expr.node)))

parse_let_statement(p) ==
    LET keyword == consum_token(p, "Let")
        token == peek_token(keyword)
        named == next_token(keyword)
        peek == peek_token(named)
    IN IF token = nullptr /\ p.ub = "trap"
       THEN PR(Throw(named, "null pointer read"), nullptr)
       ELSE IF kind_of(token) # "Identifier"
       THEN PR(Throw(named, "Expected identifier for let statement"), nullptr)
       ELSE IF peek = nullptr
       THEN PR(Throw(named, "Incomplete let statement"), nullptr)
       ELSE IF peek.kind = "Assign"
       THEN Auto(parse_expression(consum_token(named, "Assign")), LAMBDA expr :
                 PR(expect(expr.p, "Semicolon"),
                    LetStatement(string(token.text), expr.node)))
       ELSE IF peek.kind = "Semicolon"
       THEN PR(consum_token(named, "Semicolon"), LetStatement(string(token.text), nullptr))
       ELSE PR(Throw(named, "Expected expression for let statement"), nullptr)

parse_if_statement(p) ==
    Auto(parse_after(expect(consum_token(p, "If"), "LParen")), LAMBDA condition :
    Auto(parse_block_statement(expect(condition.p, "RParen")), LAMBDA then_branch :
         IF Failed(then_branch.p) THEN then_branch
         ELSE IF /\ peek_token(then_branch.p) # nullptr
                 /\ peek_token(then_branch.p).kind = "Else"
         THEN Auto(parse_statement(consum_token(then_branch.p, "Else")),
                   LAMBDA else_branch :
                   PR(else_branch.p,
                      IfStatement(condition.node, then_branch.node, else_branch.node)))
         ELSE PR(then_branch.p, IfStatement(condition.node, then_branch.node, nullptr))))

\* the initializer of a for statement, after the ( was consumed
for_initializer(open) ==
    IF Failed(open) THEN PR(open, nullptr)
    ELSE IF peek_token(open) # nullptr /\ peek_token(open).kind = "Semicolon"
    THEN PR(consum_token(open, "Semicolon"), nullptr)
    ELSE parse_statement(open)

\* its condition or its increment, absent when the token of kind end is next
for_expression(p, end) ==
    IF Failed(p) THEN PR(p, nullptr)
    ELSE IF peek_token(p) # nullptr /\ peek_token(p).kind = end THEN PR(p, nullptr)
    ELSE parse_expression(p)

parse_for_statement(p) ==
    Auto(for_initializer(expect(consum_token(p, "For"), "LParen")), LAMBDA initializer :
    Auto(for_expression(initializer.p, "Semicolon"), LAMBDA condition :
    Auto(for_expression(expect(condition.p, "Semicolon"), "RParen"), LAMBDA increment :
    Auto(parse_statement(expect(increment.p, "RParen")), LAMBDA body :
         IF Failed(body.p) THEN body
         ELSE PR(body.p, ForStatement(initializer.node, condition.node, increment.node,
                                      body.node))))))

\* while (peek != nullptr && peek->kind != TokenKind::RBrace)
parse_block_loop(p, statements) ==
    IF Failed(p) \/ peek_token(p) = nullptr \/ peek_token(p).kind = "RBrace"
    THEN PR(p, statements)
    ELSE Auto(parse_statement(p), LAMBDA stmt :
              IF Failed(stmt.p) THEN PR(stmt.p, statements)
              ELSE IF stmt.p = p THEN PR(Throw(p, "loops"), statements)
              ELSE parse_block_loop(stmt.p, Append(statements, stmt.node)))

parse_block_statement(p) ==
    Auto(parse_block_loop(expect(p, "LBrace"), <<>>), LAMBDA statements :
         PR(expect(statements.p, "RBrace"), BlockStatement(statements.node)))

parse_return_statement(p) ==
    LET keyword == consum_token(p, "Return")
        peek == peek_token(keyword)
    IN IF peek = nullptr THEN PR(Throw(keyword, "Incomplete resturn statement"), nullptr)
       ELSE IF peek.kind = "Semicolon"
       THEN PR(consum_token(keyword, "Semicolon"), ReturnStatement(nullptr))
       ELSE Auto(parse_expression(keyword), LAMBDA expr :
                 PR(expect(expr.p, "Semicolon"), ReturnStatement(expr.node)))

\* the parameters of a function, after the ( was consumed
fn_params(open) ==
    IF Failed(open) THEN PR(open, <<>>)
    ELSE parse_list(open, "RParen", "Comma", "parse_identifier", <<>>)

parse_fn_statement(p) ==
    Auto(parse_identifier(consum_token(p, "Fn")), LAMBDA name :
    Auto(fn_params(expect(name.p, "LParen")), LAMBDA params :
    Auto(parse_block_statement(expect(params.p, "RParen")), LAMBDA body :
         PR(body.p, FnStatement(name.node, params.node, body.node)))))

(***************************************************************************)
(* Parser::parse().  statements and functions are its locals; a round of   *)
(* its loop parses one statement.  std::unordered_map::insert leaves the   *)
(* map as it is when it has the key.                                       *)
(***************************************************************************)
functions_insert(functions, fn) ==
    IF fn.name \in DOMAIN functions THEN functions
    ELSE [name \in DOMAIN functions \cup {fn.name} |->
            IF name = fn.name THEN fn ELSE functions[name]]

\* one round of while (peek != nullptr): s is [p, statements, functions] and
\* count, the statements parsed
parse_round(s) ==
    Auto(parse_statement(s.p), LAMBDA stmt :
         IF Failed(stmt.p) THEN [s EXCEPT !.p = stmt.p]
         ELSE IF stmt.node.kind = "FnStmt"
         THEN [s EXCEPT !.p = stmt.p, !.functions = functions_insert(@, stmt.node),
                        !.count = @ + 1]
         ELSE [s EXCEPT !.p = stmt.p, !.statements = Append(@, stmt.node),
                        !.count = @ + 1])

(***************************************************************************)
(* Source texts.  A text is written as its lexemes, one blank between two  *)
(* of them; a lexeme of more than one character is spelled by Word.        *)
(***************************************************************************)
Word ==
    [let |-> <<"l", "e", "t">>, fn |-> <<"f", "n">>, if |-> <<"i", "f">>,
     else |-> <<"e", "l", "s", "e">>, for |-> <<"f", "o", "r">>,
     break |-> <<"b", "r", "e", "a", "k">>,
     continue |-> <<"c", "o", "n", "t", "i", "n", "u", "e">>,
     return |-> <<"r", "e", "t", "u", "r", "n">>,
     true |-> <<"t", "r", "u", "e">>, false |-> <<"f", "a", "l", "s", "e">>,
     inc |-> <<"+", "+">>, eq |-> <<"=", "=">>, le |-> <<"<", "=">>,
     and |-> <<"&", "&">>, or |-> <<"|", "|">>, ten |-> <<"1", "0">>,
     five_0 |-> <<"5", ".", "0">>, two_0 |-> <<"2", ".", "0">>]

Spell(lexeme) == IF lexeme \in DOMAIN Word THEN Word[lexeme] ELSE <<lexeme>>

RECURSIVE Text(_)
Text(lexemes) ==
    IF lexemes = <<>> THEN <<>>
    ELSE IF Len(lexemes) = 1 THEN Spell(lexemes[1])
    ELSE Spell(lexemes[1]) \o <<" ">> \o Text(Tail(lexemes))

\* let a = 1 + b * 2; of src/tests/TestTokenizer.cpp
SampleText == Text(<<"let", "a", "=", "1", "+", "b", "*", "2", ";">>)

\* the texts of at most n bytes of Alphabet
Alphabet == {"a", "1", ".", "@", " ", NUL, xFF}

RECURSIVE Texts(_)
Texts(n) ==
    IF n = 0 THEN {<<>>}
    ELSE Texts(n - 1) \cup {<<c>> \o t : c \in Alphabet, t \in Texts(n - 1)}

\* a program that declares f twice
Redeclared ==
    Text(<<"fn", "f", "(", ")", "{", "return", "1", ";", "}",
           "fn", "f", "(", ")", "{", "return", "2", ";", "}",
           "return", "f", "(", ")", ";">>)

\* programs that are complete
Complete ==
    { SampleText,
      Text(<<"let", "a", "=", "1", ";">>),
      Text(<<"let", "x", ";", "x", "=", "e", ";", "return", "x", "+", "1", ";">>),
      Text(<<"fn", "f", "(", "a", ",", "b", ")", "{", "return", "a", "+", "b", ";", "}",
             "return", "f", "(", "1", ",", "2", ")", ";">>),
      Text(<<"let", "s", "=", "0", ";",
             "for", "(", "let", "i", "=", "0", ";", "i", "<", "3", ";", "i", "inc", ")",
             "{", "if", "(", "i", "eq", "1", ")", "{", "continue", ";", "}",
                  "else", "{", "s", "=", "s", "+", "i", ";", "}", "}",
             "return", "s", ";">>),
      Text(<<"for", "(", ";", ";", ")", "{", "break", ";", "}", "return", ";">>),
      Text(<<"let", "a", "=", "[", "1", ",", "2", "]", ";", "return", "a", "[", "0", "]",
             ";">>),
      Redeclared,
      Text(<<"fn", "f", "(", ")", "{", "return", "1", ";", "}",
             "fn", "g", "(", ")", "{", "return", "2", ";", "}",
             "return", "f", "(", ")", "+", "g", "(", ")", ";">>) }

\* programs with an empty statement
WithEmpty ==
    { Text(<<";">>),
      Text(<<"let", "x", "=", "1", ";", ";">>),
      Text(<<"{", ";", "}">>),
      Text(<<"if", "(", "true", ")", "{", "}", "else", ";", "return", "1", ";">>),
      Text(<<"for", "(", ";", ";", ")", ";">>) }

\* programs that end where a token is still required
Truncated ==
    { Text(<<"x">>),
      Text(<<"let">>),
      Text(<<"let", "x">>),
      Text(<<"let", "x", "=", "1">>),
      Text(<<"let", "x", "=">>),
      Text(<<"{", "x", ";">>),
      Text(<<"f", "(", "1">>),
      Text(<<"f", "(", "1", ",">>),
      Text(<<"f", "(">>),
      Text(<<"[", "1", ",", "2">>),
      Text(<<"fn", "f", "(", "a">>),
      Text(<<"fn", "f">>),
      Text(<<"if", "(", "x", ")", "{", "}", "else">>),
      Text(<<"for", "(">>),
      Text(<<"for", "(", ";", ";", ")">>),
      Text(<<"return">>),
      Text(<<"return", "1">>),
      Text(<<"break">>),
      Text(<<"(", "1">>),
      Text(<<"1", "+">>) }

\* programs whose first statement has a list that ends in a separator
TrailingSeparator ==
    { Text(<<"return", "f", "(", "1", ",", ")", ";">>),
      Text(<<"return", "[", "1", ",", "2", ",", "]", ";">>),
      Text(<<"fn", "f", "(", "a", ",", ")", "{", "return", "a", ";", "}",
             "return", "f", "(", "3", ")", ";">>) }

\* programs with a misplaced token
Malformed ==
    { Text(<<"return", "[", ",", "]", ";">>),
      Text(<<"return", "f", "(", "1", "2", ")", ";">>),
      Text(<<"let", "1", ";">>),
      Text(<<"let", "x", "+", ";">>),
      Text(<<"}">>),
      Text(<<"x", "=", ")", ";">>) }

\* what a string literal is written from: a character, or an escape
Pieces ==
    {<<"a">>, <<"\\", "n">>, <<"\\", "t">>, <<"\\", "r">>, <<"\\", "\\">>,
     <<"\\", "\"">>, <<"\\", "a">>}

\* the characters between the quotes, of at most n pieces
RECURSIVE Bodies(_)
Bodies(n) ==
    IF n = 0 THEN {<<>>}
    ELSE Bodies(n - 1) \cup {piece \o body : piece \in Pieces, body \in Bodies(n - 1)}

\* return "body";
Quoted(body) == Word.return \o <<" ", "\"">> \o body \o <<"\"", ";">>

StringLiterals == {Quoted(body) : body \in Bodies(MaxPieces)}

\* the operands of the divisions: 7, -7, 2, -2, 8, 0, 5.0 and 2.0
Operands ==
    {<<"7">>, <<"(", "0", "-", "7", ")">>, <<"2">>, <<"(", "0", "-", "2", ")">>, <<"8">>,
     <<"0">>, <<"five_0">>, <<"two_0">>}

\* return a / b; and return a % b;
Division(a, op, b) == Text(<<"return">> \o a \o <<op>> \o b \o <<";">>)

Divisions == {Division(a, op, b) : a \in Operands, op \in {"/", "%"}, b \in Operands}

Sources ==
    Divisions \cup Complete \cup WithEmpty \cup Truncated \cup TrailingSeparator \cup Malformed
        \cup StringLiterals

(***************************************************************************)
(* Texts made of lexemes.  A lexeme is written as the Token it is to give: *)
(* its kind and its characters.  Between two lexemes there is a blank or   *)
(* nothing; nothing only where the characters of the two do not read as    *)
(* one lexeme or as the start of another.                                  *)
(***************************************************************************)
Lexemes ==
    { Token("Let", Word.let), Token("Identifier", <<"a">>),
      Token("Integer", <<"1">>), Token("Float", <<"1", ".", "5">>),
      Token("String", <<"\"", "a", "\"">>),
      Token("String", <<"\"", "\\", "\"", "\\", "\\", "\"">>),
      Token("EnvVariable", <<"$", "e">>), Token("Assign", <<"=">>),
      Token("Equals", Word.eq), Token("Plus", <<"+">>), Token("Increase", Word.inc),
      Token("Dot", <<".">>), Token("Semicolon", <<";">>) }

\* the Tokens of SampleText
SampleTokens ==
    << Token("Let", Word.let), Token("Identifier", <<"a">>), Token("Assign", <<"=">>),
       Token("Integer", <<"1">>), Token("Plus", <<"+">>), Token("Identifier", <<"b">>),
       Token("Star", <<"*">>), Token("Integer", <<"2">>), Token("Semicolon", <<";">>) >>

\* b written directly after a would not be read as a and then b
Joins(a, b) ==
    LET last_char == a.text[Len(a.text)]
        first_char == Head(b.text)
    IN \/ last_char \in isword /\ first_char \in isword
       \/ a.kind = "Dot" /\ first_char \in isdigit
       \/ a.kind \in {"Assign", "Bang", "LessThan", "GreaterThan"} /\ first_char = "="
       \/ a.kind = "Plus" /\ first_char = "+"
       \/ a.kind = "Minus" /\ first_char = "-"

\* the lexemes in order, a blank before lexemes[i] when blanks[i]
RECURSIVE Spaced(_, _)
Spaced(lexemes, blanks) ==
    IF lexemes = <<>> THEN <<>>
    ELSE Spaced(SubSeq(lexemes, 1, Len(lexemes) - 1), blanks)
            \o (IF blanks[Len(lexemes)] THEN <<" ">> ELSE <<>>)
            \o lexemes[Len(lexemes)].text

\* the ways to write n lexemes
Writings(n) ==
    { w \in [lexemes : [1..n -> Lexemes], blanks : [1..n -> BOOLEAN]] :
        \A i \in 2..n : Joins(w.lexemes[i - 1], w.lexemes[i]) => w.blanks[i] }

\* the texts a Tokenizer is given: any bytes, or lexemes
TokenizerInputs ==
    {[text |-> t, lexical |-> FALSE, lexemes |-> <<>>] : t \in Texts(MaxText)}
    \cup {[text |-> SampleText, lexical |-> TRUE, lexemes |-> SampleTokens]}
    \cup UNION {{[text |-> Spaced(w.lexemes, w.blanks), lexical |-> TRUE,
                  lexemes |-> w.lexemes] : w \in Writings(n)} : n \in 1..MaxLexemes}
(***************************************************************************)
(* Programs.  The sources are those of src/tests/TestEvaluator.cpp         *)
(* (TestProgram), in the syntax src/src/parser.cpp accepts, and of the     *)
(* specification's examples.                                               *)
(***************************************************************************)
Var(name) == VariableExpression(name)

Num(value) == IntegerLiteral(value)

Bin(left, op, right) == BinaryExpression(op, left, right)

Set(name, expr) == ExpressionStatement(BinaryExpression("Assign", Var(name), expr))

Inc(name) == PostfixExpression("Increase", Var(name))

Block(statements) == BlockStatement(statements)

If(condition, then_branch) == IfStatement(condition, Block(then_branch), nullptr)

Invoke(name, args) == CallExpression(Var(name), args)

NoFunctions == StackFrame

\* return;
TestReturn == Program(<<ReturnStatement(nullptr)>>, NoFunctions)

\* return 1;
TestReturn1 == Program(<<ReturnStatement(Num(1))>>, NoFunctions)

\* if (true) { return 1; } else { return 2; }
TestIfElse ==
    Program(<<IfStatement(BooleanLiteral(TRUE), Block(<<ReturnStatement(Num(1))>>),
                          Block(<<ReturnStatement(Num(2))>>))>>, NoFunctions)

\* if (false) { return 4; } return 5;
TestIfFalse ==
    Program(<<If(BooleanLiteral(FALSE), <<ReturnStatement(Num(4))>>),
              ReturnStatement(Num(5))>>, NoFunctions)

\* let i; for (i = 0; i < 10; i++) { } return i;
TestFor ==
    Program(<<LetStatement("i", nullptr),
              ForStatement(Set("i", Num(0)), Bin(Var("i"), "LessThan", Num(10)), Inc("i"),
                           Block(<<>>)),
              ReturnStatement(Var("i"))>>, NoFunctions)

\* let i; for (i = 0; i < 10; i = i + 1) {} return i;
TestScoping ==
    Program(<<LetStatement("i", nullptr),
              ForStatement(Set("i", Num(0)), Bin(Var("i"), "LessThan", Num(10)),
                           Bin(Var("i"), "Assign", Bin(Var("i"), "Add", Num(1))),
                           Block(<<>>)),
              ReturnStatement(Var("i"))>>, NoFunctions)

\* let sum = 0; for (let i = 1; i <= 5; i++) { sum = sum + i; } return sum;
TestSum ==
    Program(<<LetStatement("sum", Num(0)),
              ForStatement(LetStatement("i", Num(1)),
                           Bin(Var("i"), "LessThanOrEqual", Num(5)), Inc("i"),
                           Block(<<Set("sum", Bin(Var("sum"), "Add", Var("i")))>>)),
              ReturnStatement(Var("sum"))>>, NoFunctions)

\* let i; for (i = 0; i < 5; i++) { if (i == 3) { break; } } return i;
TestBreak ==
    Program(<<LetStatement("i", nullptr),
              ForStatement(Set("i", Num(0)), Bin(Var("i"), "LessThan", Num(5)), Inc("i"),
                           Block(<<If(Bin(Var("i"), "Equals", Num(3)),
                                      <<BreakStatement>>)>>)),
              ReturnStatement(Var("i"))>>, NoFunctions)

\* let sum=0; for(let i=1;i<=5;i=i+1){ if(i==3){break;} sum=sum+i;} return sum;
TestBreakSum ==
    Program(<<LetStatement("sum", Num(0)),
              ForStatement(LetStatement("i", Num(1)),
                           Bin(Var("i"), "LessThanOrEqual", Num(5)),
                           Bin(Var("i"), "Assign", Bin(Var("i"), "Add", Num(1))),
                           Block(<<If(Bin(Var("i"), "Equals", Num(3)), <<BreakStatement>>),
                                   Set("sum", Bin(Var("sum"), "Add", Var("i")))>>)),
              ReturnStatement(Var("sum"))>>, NoFunctions)

\* let sum = 0; for (let i = 1; i <= 4; i++) { if (i % 2 == 0) { continue; }
\* sum = sum + i; } return sum;
TestContinueSum ==
    Program(<<LetStatement("sum", Num(0)),
              ForStatement(LetStatement("i", Num(1)),
                           Bin(Var("i"), "LessThanOrEqual", Num(4)), Inc("i"),
                           Block(<<If(Bin(Bin(Var("i"), "Modulo", Num(2)), "Equals", Num(0)),
                                      <<ContinueStatement>>),
                                   Set("sum", Bin(Var("sum"), "Add", Var("i")))>>)),
              ReturnStatement(Var("sum"))>>, NoFunctions)

\* let j = 0; for (j = 0; j < 3; j = j + 1) { continue; } return j;
TestContinue ==
    Program(<<LetStatement("j", Num(0)),
              ForStatement(Set("j", Num(0)), Bin(Var("j"), "LessThan", Num(3)),
                           Bin(Var("j"), "Assign", Bin(Var("j"), "Add", Num(1))),
                           Block(<<ContinueStatement>>)),
              ReturnStatement(Var("j"))>>, NoFunctions)

\* fn f() { return 1; } return f();
TestCall ==
    Program(<<ReturnStatement(Invoke("f", <<>>))>>,
            "f" :> FnStatement("f", <<>>, Block(<<ReturnStatement(Num(1))>>)))

\* fn add(a, b) { return a + b; } return add(1, 2);
TestAdd ==
    Program(<<ReturnStatement(Invoke("add", <<Num(1), Num(2)>>))>>,
            "add" :> FnStatement("add", <<"a", "b">>,
                         Block(<<ReturnStatement(Bin(Var("a"), "Add", Var("b")))>>)))

\* fn fib(n) { if (n <= 1) { return n; } return fib(n - 1) + fib(n - 2); }
\* return fib(10);
TestFib ==
    Program(<<ReturnStatement(Invoke("fib", <<Num(10)>>))>>,
            "fib" :> FnStatement("fib", <<"n">>,
                         Block(<<If(Bin(Var("n"), "LessThanOrEqual", Num(1)),
                                    <<ReturnStatement(Var("n"))>>),
                                 ReturnStatement(
                                     Bin(Invoke("fib", <<Bin(Var("n"), "Subtract", Num(1))>>),
                                         "Add",
                                         Invoke("fib", <<Bin(Var("n"), "Subtract", Num(2))>>)))
                               >>)))

(***************************************************************************)
(* Equality of AST nodes (src/include/ast.h): operator== tests the kinds   *)
(* and calls the equals of the class.                                      *)
(***************************************************************************)
RECURSIVE equals(_, _)

\* two unique_ptr members: both null, or neither and the nodes equal
both(this, other) ==
    \/ this = nullptr /\ other = nullptr
    \/ this # nullptr /\ other # nullptr /\ equals(this, other)

\* two vectors of nodes: the sizes, then the elements one by one
each(these, others) ==
    /\ Len(these) = Len(others)
    /\ \A i \in 1..Len(these) : equals(these[i], others[i])

literal_equals(this, other) ==
    /\ other.literal_kind = this.literal_kind
    /\ CASE this.literal_kind = "Null" -> TRUE
         [] this.literal_kind = "Boolean" -> other.b = this.b
         [] this.literal_kind = "Integer" -> other.i = this.i
         [] this.literal_kind = "Float" ->
               other.n = this.n /\ other.d = this.d /\ ~(this.n = 0 /\ this.d = 0)
         [] this.literal_kind = "String" -> other.s = this.s

equals(this, other) ==
    /\ other.kind = this.kind
    /\ CASE this.kind = "BinaryExpr" ->
               /\ this.op = other.op
               /\ equals(this.left, other.left)
               /\ equals(this.right, other.right)
         [] this.kind \in {"PrefixExpr", "PostfixExpr"} ->
               this.op = other.op /\ equals(this.expr, other.expr)
         [] this.kind = "LiteralExpr" -> literal_equals(this, other)
         [] this.kind \in {"VariableExpr", "EnvVariableExpr"} -> this.name = other.name
         [] this.kind = "ArrayExpr" -> each(this.elements, other.elements)
         [] this.kind = "IndexExpr" ->
               equals(this.expr, other.expr) /\ equals(this.index, other.index)
         [] this.kind = "CallExpr" ->
               equals(this.callee, other.callee) /\ each(this.args, other.args)
         [] this.kind \in {"EmptyStmt", "BreakStmt", "ContinueStmt"} -> TRUE
         [] this.kind = "LetStmt" -> both(this.value, other.value)
         [] this.kind = "ExprStmt" -> equals(this.expr, other.expr)
         [] this.kind = "BlockStmt" -> each(this.statements, other.statements)
         [] this.kind = "IfStmt" ->
               /\ equals(this.condition, other.condition)
               /\ equals(this.then_branch, other.then_branch)
               /\ both(this.else_branch, other.else_branch)
         [] this.kind = "ForStmt" ->
               /\ both(this.initializer, other.initializer)
               /\ both(this.condition, other.condition)
               /\ both(this.increment, other.increment)
               /\ equals(this.body, other.body)
         [] this.kind = "ReturnStmt" -> both(this.value, other.value)
         [] this.kind = "FnStmt" ->
               /\ this.name = other.name
               /\ this.params = other.params
               /\ equals(this.body, other.body)

\* Program::equals
Program_equals(this, other) == each(this.statements, other.statements)

\* the statements with another name in every let among them
Renamed(statements) ==
    [i \in 1..Len(statements) |->
        IF statements[i].kind = "LetStmt"
        THEN LetStatement(IF statements[i].name = "b" THEN "a" ELSE "b", statements[i].value)
        ELSE statements[i]]

\* the Programs a Program is compared with: itself as parsed once more, and
\* Programs that differ from it in a name, in the function table, in a
\* statement or in the number of statements
Others(program) ==
    { program,
      Program(Renamed(program.statements), program.functions),
      Program(program.statements, NoFunctions),
      Program(program.statements \o <<EmptyStatement>>, program.functions),
      Program([i \in 1..Len(program.statements) |->
                  IF i = 1 THEN BreakStatement ELSE program.statements[i]],
              program.functions) }
(***************************************************************************)
(* Source text of expressions.  Unparse writes a tree as the tokens of its *)
(* text by the grammar of the language: an operand is parenthesised when   *)
(* it binds no tighter than the place it stands in allows (Binds, the      *)
(* precedence table; a right operand of the same level, and any binary     *)
(* operand of a prefix operator, is parenthesised).                        *)
(***************************************************************************)
Lexeme ==
    [Plus |-> <<"+">>, Minus |-> <<"-">>, Star |-> <<"*">>, Slash |-> <<"/">>,
     Percent |-> <<"%">>, Equals |-> <<"=", "=">>, NotEquals |-> <<"!", "=">>,
     GreaterThan |-> <<">">>, GreaterThanOrEqual |-> <<">", "=">>,
     LessThan |-> <<"<">>, LessThanOrEqual |-> <<"<", "=">>,
     LogicAnd |-> <<"&", "&">>, LogicOr |-> <<"|", "|">>, Assign |-> <<"=">>,
     Dot |-> <<".">>, Bang |-> <<"!">>, LParen |-> <<"(">>, RParen |-> <<")">>,
     Increase |-> <<"+", "+">>, Decrease |-> <<"-", "-">>]

Tok(kind) == Token(kind, Lexeme[kind])

\* the decimal digits of n >= 0
RECURSIVE to_string(_)
to_string(n) ==
    IF n < 10 THEN <<Digits[n + 1]>>
    ELSE Append(to_string(n \div 10), Digits[(n % 10) + 1])

BinaryOps == {BINARY_OPERATORS[kind] : kind \in DOMAIN BINARY_OPERATORS}

PrefixOps == {"Not", "Subtract"}

\* the kind of the token that is written for a binary or a prefix operator
BinaryToken(op) == CHOOSE kind \in DOMAIN BINARY_OPERATORS : BINARY_OPERATORS[kind] = op

PrefixToken(op) == IF op = "Not" THEN "Bang" ELSE "Minus"

\* the level of a binary operator in the precedence table, low to high
Binds(op) ==
    CASE op = "Assign" -> 1
      [] op = "LogicOr" -> 2
      [] op = "LogicAnd" -> 3
      [] op \in {"Equals", "NotEquals"} -> 4
      [] op \in {"LessThan", "LessThanOrEqual", "GreaterThan", "GreaterThanOrEqual"} -> 5
      [] op \in {"Add", "Subtract"} -> 6
      [] op \in {"Multiply", "Divide", "Modulo"} -> 7
      [] op = "Access" -> 12

RECURSIVE Unparse(_)
Parenthesised(tree) == <<Tok("LParen")>> \o Unparse(tree) \o <<Tok("RParen")>>

Unparse(tree) ==
    CASE tree.kind = "LiteralExpr" -> <<Token("Integer", to_string(tree.i))>>
      [] tree.kind = "VariableExpr" -> <<Token("Identifier", <<tree.name>>)>>
      [] tree.kind = "PrefixExpr" ->
            <<Tok(PrefixToken(tree.op))>>
            \o (IF tree.expr.kind = "BinaryExpr" THEN Parenthesised(tree.expr)
                ELSE Unparse(tree.expr))
      [] tree.kind = "BinaryExpr" ->
            (IF tree.left.kind = "BinaryExpr" /\ Binds(tree.left.op) < Binds(tree.op)
             THEN Parenthesised(tree.left) ELSE Unparse(tree.left))
            \o <<Tok(BinaryToken(tree.op))>>
            \o (IF tree.right.kind = "BinaryExpr" /\ Binds(tree.right.op) <= Binds(tree.op)
                THEN Parenthesised(tree.right) ELSE Unparse(tree.right))

\* the number of literals of a tree
RECURSIVE Leaves(_)
Leaves(tree) ==
    CASE tree.kind = "PrefixExpr" -> Leaves(tree.expr)
      [] tree.kind = "BinaryExpr" -> Leaves(tree.left) + Leaves(tree.right)
      [] OTHER -> 1

\* the trees of n operators, the binary ones of ops, whose literals are first,
\* first + 1, ... left to right
RECURSIVE Trees(_, _, _)
Trees(n, first, ops) ==
    IF n = 0 THEN {IntegerLiteral(first)}
    ELSE {PrefixExpression(op, expr) : op \in PrefixOps, expr \in Trees(n - 1, first, ops)}
         \cup UNION {UNION {{BinaryExpression(op, left, right) :
                                op \in ops,
                                right \in Trees(n - 1 - i, first + Leaves(left), ops)} :
                            left \in Trees(i, first, ops)} :
                     i \in 0..(n - 1)}

\* one binary operator of each level of the precedence table
Levels == {"Assign", "LogicOr", "LogicAnd", "Equals", "LessThan", "Add", "Multiply"}

\* 2 + 3 * 5, (2 + 3) * 5, 4 * (6 - (2 + 1)), 8 - 3 - 2, -1 + 2, !a && b
Examples ==
    [sum_product |-> Bin(Num(2), "Add", Bin(Num(3), "Multiply", Num(5))),
     product_sum |-> Bin(Bin(Num(2), "Add", Num(3)), "Multiply", Num(5)),
     nested |-> Bin(Num(4), "Multiply",
                    Bin(Num(6), "Subtract", Bin(Num(2), "Add", Num(1)))),
     differences |-> Bin(Bin(Num(8), "Subtract", Num(3)), "Subtract", Num(2)),
     negated_sum |-> Bin(PrefixExpression("Subtract", Num(1)), "Add", Num(2)),
     not_and |-> Bin(PrefixExpression("Not", Var("a")), "LogicAnd", Var("b"))]

\* every tree of at most two operators, and the trees of more operators, up to
\* MaxOps, that take one binary operator of each level
Expressions ==
    UNION {Trees(n, 1, IF n <= 2 THEN BinaryOps ELSE Levels) : n \in 0..MaxOps}
    \cup {Examples[e] : e \in DOMAIN Examples}


\* fn h() { } declared inside a block is a statement of the block
TestNestedFn ==
    Program(<<Block(<<FnStatement("h", <<>>, Block(<<>>))>>)>>, NoFunctions)

\* return [1];
TestArray == Program(<<ReturnStatement(ArrayExpression(<<Num(1)>>))>>, NoFunctions)

\* let n = 0; for (let i = 0; i < 2; i++) { for (let j = 0; j < 5; j++) { break; }
\* n = n + 1; } return n;
TestNestedBreak ==
    Program(<<LetStatement("n", Num(0)),
              ForStatement(LetStatement("i", Num(0)), Bin(Var("i"), "LessThan", Num(2)),
                           Inc("i"),
                           Block(<<ForStatement(LetStatement("j", Num(0)),
                                                Bin(Var("j"), "LessThan", Num(5)), Inc("j"),
                                                Block(<<BreakStatement>>)),
                                   Set("n", Bin(Var("n"), "Add", Num(1)))>>)),
              ReturnStatement(Var("n"))>>, NoFunctions)

\* fn g() { x = 5; } { let x = 1; g(); return x; }
TestCallerBlock ==
    Program(<<Block(<<LetStatement("x", Num(1)),
                      ExpressionStatement(Invoke("g", <<>>)),
                      ReturnStatement(Var("x"))>>)>>,
            [name \in {"g"} |-> FnStatement("g", <<>>, Block(<<Set("x", Num(5))>>))])

\* fn outer(v) { inner(); return v; } fn inner() { v = 7; } return outer(1);
TestCallerLocal ==
    Program(<<ReturnStatement(Invoke("outer", <<Num(1)>>))>>,
            [name \in {"outer", "inner"} |->
                IF name = "outer"
                THEN FnStatement("outer", <<"v">>,
                         Block(<<ExpressionStatement(Invoke("inner", <<>>)),
                                 ReturnStatement(Var("v"))>>))
                ELSE FnStatement("inner", <<>>, Block(<<Set("v", Num(7))>>))])

\* let a = 1; let b = 0; b = a; b++; return a;
TestAssignAlias ==
    Program(<<LetStatement("a", Num(1)), LetStatement("b", Num(0)), Set("b", Var("a")),
              ExpressionStatement(Inc("b")), ReturnStatement(Var("a"))>>, NoFunctions)

\* let i = 0; false && i++ == 1; true || i++ == 2; return i;
TestEager ==
    Program(<<LetStatement("i", Num(0)),
              ExpressionStatement(Bin(BooleanLiteral(FALSE), "LogicAnd",
                                      Bin(Inc("i"), "Equals", Num(1)))),
              ExpressionStatement(Bin(BooleanLiteral(TRUE), "LogicOr",
                                      Bin(Inc("i"), "Equals", Num(2)))),
              ReturnStatement(Var("i"))>>, NoFunctions)

\* fn stop() { break; return 7; }  fn skip() { continue; return 7; }
\* let x = 0; for (let i = 0; i < 2; i++) { stop(); skip(); x = x + 1; } return x;
TestSignalInCallee ==
    Program(<<LetStatement("x", Num(0)),
              ForStatement(LetStatement("i", Num(0)), Bin(Var("i"), "LessThan", Num(2)),
                           Inc("i"),
                           Block(<<ExpressionStatement(Invoke("stop", <<>>)),
                                   ExpressionStatement(Invoke("skip", <<>>)),
                                   Set("x", Bin(Var("x"), "Add", Num(1)))>>)),
              ReturnStatement(Var("x"))>>,
            [name \in {"stop", "skip"} |->
                FnStatement(name, <<>>,
                    Block(<<IF name = "stop" THEN BreakStatement ELSE ContinueStatement,
                            ReturnStatement(Num(7))>>))])

\* each test with the Object its eval() is expected to return
Tests ==
    { [program |-> TestReturn, expected |-> Null],
      [program |-> TestReturn1, expected |-> Integer(1)],
      [program |-> TestIfElse, expected |-> Integer(1)],
      [program |-> TestIfFalse, expected |-> Integer(5)],
      [program |-> TestFor, expected |-> Integer(10)],
      [program |-> TestScoping, expected |-> Integer(10)],
      [program |-> TestSum, expected |-> Integer(15)],
      [program |-> TestBreak, expected |-> Integer(3)],
      [program |-> TestBreakSum, expected |-> Integer(3)],
      [program |-> TestContinueSum, expected |-> Integer(4)],
      [program |-> TestContinue, expected |-> Integer(3)],
      [program |-> TestNestedBreak, expected |-> Integer(2)],
      [program |-> TestCall, expected |-> Integer(1)],
      [program |-> TestAdd, expected |-> Integer(3)],
      [program |-> TestFib, expected |-> Integer(55)] }

(***************************************************************************)
(* Generated programs: up to MaxStmts statements of Pool, then return x;   *)
(* with the functions                                                      *)
(*   fn f(a) { a++; return a; }   fn g() { x = 5; }                        *)
(***************************************************************************)
Functions ==
    [name \in {"f", "g"} |->
        CASE name = "f" -> FnStatement("f", <<"a">>,
                               Block(<<ExpressionStatement(Inc("a")),
                                       ReturnStatement(Var("a"))>>))
          [] name = "g" -> FnStatement("g", <<>>, Block(<<Set("x", Num(5))>>))]

Pool ==
    { LetStatement("x", Num(1)),
      LetStatement("x", Num(2)),
      LetStatement("x", nullptr),
      LetStatement("y", Var("x")),
      Set("x", Bin(Var("x"), "Add", Num(1))),
      Set("e", Num(5)),
      Set("x", Invoke("f", <<Var("x")>>)),
      ExpressionStatement(Inc("y")),
      ExpressionStatement(Inc("e")),
      ExpressionStatement(Invoke("g", <<>>)),
      ExpressionStatement(Invoke("f", <<Num(1), Num(2)>>)),
      Block(<<LetStatement("x", Num(3))>>),
      Block(<<LetStatement("x", Var("x")), ExpressionStatement(Inc("x"))>>),
      Block(<<LetStatement("x", Num(5)), Set("x", Num(6))>>),
      If(Bin(Var("x"), "Equals", Num(1)), <<ReturnStatement(Num(9))>>),
      ForStatement(LetStatement("i", Num(0)), Bin(Var("i"), "LessThan", Num(3)), Inc("i"),
                   Block(<<If(Bin(Var("i"), "Equals", Num(1)), <<ContinueStatement>>),
                           Set("x", Bin(Var("x"), "Add", Var("i")))>>)),
      BreakStatement,
      ReturnStatement(nullptr) }

\* the sequences of at most n statements of Pool
RECURSIVE Statements(_)
Statements(n) ==
    IF n = 0 THEN {<<>>}
    ELSE LET shorter == Statements(n - 1)
         IN shorter \cup {Append(p, statement) : p \in shorter, statement \in Pool}

Generated ==
    {Program(Append(p, ReturnStatement(Var("x"))), Functions) : p \in Statements(MaxStmts)}

Programs ==
    {t.program : t \in Tests}
    \cup {TestNestedFn, TestArray, TestCallerBlock, TestCallerLocal, TestAssignAlias,
           TestEager, TestSignalInCallee}
    \cup Generated

(***************************************************************************)
(* The runs.  Either the host has a parsed Program: it builds              *)
(* Context(program), defines e as 10 and calls Evaluator::eval().  Or, as  *)
(* the tests of src/tests/TestEvaluator.cpp do, it has the text of an      *)
(* expression: it makes a Parser, calls parse_expression and then          *)
(* eval(Expression&) of the tree on a Context {}.  ptree is the tree whose *)
(* text was written, ptoks its tokens, parsed the Parser and what          *)
(* parse_expression gave.  result is what the host gets from the           *)
(* Evaluator; flows is history, the ControlFlow each top-level statement   *)
(* gave; last is history, the activation that took the last step, what it  *)
(* had been handed and what it did: a call, its return or a throw.         *)
(***************************************************************************)
Running == result.status = "running"

NoProgram == Program(<<>>, NoFunctions)

\* no Tokenizer of the host's in this run
NoTokenizer ==
    [run |-> FALSE, text |-> <<>>, lexical |-> FALSE, lexemes |-> <<>>, m_input |-> <<>>,
     tokens |-> <<>>, inputs |-> <<>>]

\* no Parser::parse() in this run
NoSource ==
    [state |-> "none", text |-> <<>>, p |-> Parser(<<>>, "trap"), statements |-> <<>>,
     functions |-> NoFunctions, count |-> 0, other |-> NoProgram, equal |-> FALSE]

InitProgram ==
    /\ prog \in Programs
    /\ ctx = define(Context(prog), "e", Integer(10))
    /\ stack = <<Activation("eval", nullptr, ctx)>>
    /\ result = [status |-> "running", value |-> 0]
    /\ ptree = nullptr
    /\ ptoks = <<>>
    /\ parsed = [done |-> TRUE, p |-> Parser(<<>>, "trap"), node |-> nullptr]
    /\ psrc = NoSource
    /\ tokenizer = NoTokenizer

InitExpression ==
    /\ ptree \in Expressions
    /\ ptoks = Unparse(ptree)
    /\ \E ub \in UndefinedReads :
           parsed = [done |-> FALSE, p |-> Parser(ptoks, ub), node |-> nullptr]
    /\ prog = NoProgram
    /\ ctx = Context(NoProgram)
    /\ stack = <<>>
    /\ result = [status |-> "idle", value |-> 0]
    /\ psrc = NoSource
    /\ tokenizer = NoTokenizer

\* the host has the text of a program: Parser(text), parse(), then as InitProgram
InitSource ==
    /\ \E text \in Sources, ub \in UndefinedReads :
           /\ ptoks = Tokens(text)
           /\ psrc = [state |-> "parsing", text |-> text, p |-> Parser(ptoks, ub),
                      statements |-> <<>>, functions |-> NoFunctions, count |-> 0,
                      other |-> NoProgram, equal |-> FALSE]
    /\ ptree = nullptr
    /\ parsed = [done |-> TRUE, p |-> Parser(<<>>, "trap"), node |-> nullptr]
    /\ prog = NoProgram
    /\ ctx = Context(NoProgram)
    /\ stack = <<>>
    /\ result = [status |-> "idle", value |-> 0]
    /\ tokenizer = NoTokenizer

\* the host has a text and a Tokenizer of it, and calls next() again and again;
\* tokens and inputs are history: the Token each call returned and the m_input
\* it left; text is the text given, lexemes what it was written from
InitTokenizer ==
    /\ \E input \in TokenizerInputs :
           tokenizer = [run |-> TRUE, text |-> input.text, lexical |-> input.lexical,
                        lexemes |-> input.lexemes, m_input |-> input.text,
                        tokens |-> <<>>, inputs |-> <<>>]
    /\ psrc = NoSource
    /\ ptoks = <<>>
    /\ ptree = nullptr
    /\ parsed = [done |-> TRUE, p |-> Parser(<<>>, "trap"), node |-> nullptr]
    /\ prog = NoProgram
    /\ ctx = Context(NoProgram)
    /\ stack = <<>>
    /\ result = [status |-> "idle", value |-> 0]

Init ==
    /\ InitProgram \/ InitExpression \/ InitSource \/ InitTokenizer
    /\ ret = NoValue
    /\ flows = <<>>
    /\ last = [top |-> Activation("host", nullptr, ctx), ret |-> NoValue, did |-> "call"]
    /\ steps = 0

\* parse->parse_expression()
ParseExpression ==
    /\ ~parsed.done
    /\ LET expr == parse_expression(parsed.p)
       IN parsed' = [done |-> TRUE, p |-> expr.p, node |-> expr.node]
    /\ UNCHANGED <<evalVars, ptoks, ptree, psrc, tokenizer>>

\* std::make_unique<Evaluator>(context)->eval(*expr)
EvalParsed ==
    /\ psrc.state = "none"
    /\ ~tokenizer.run
    /\ parsed.done
    /\ ~Failed(parsed.p)
    /\ result.status = "idle"
    /\ stack' = <<Activation(parsed.node.kind, parsed.node, ctx)>>
    /\ result' = [status |-> "running", value |-> 0]
    /\ UNCHANGED <<prog, ctx, ret, flows, last, steps, parseVars>>

\* the calls of next() so far that read nothing
Idle ==
    Cardinality({i \in 1..Len(tokenizer.inputs) :
                    Len(tokenizer.inputs[i]) = Len(tokenizer.m_input)})

\* tokenizer.next()
TokenizerNext ==
    /\ tokenizer.run
    /\ Idle < MaxCalls
    /\ \E uninit \in Uninitialised :
           LET r == next(tokenizer.m_input, uninit)
           IN tokenizer' = [tokenizer EXCEPT !.m_input = r.m_input,
                                             !.tokens = Append(@, r.token),
                                             !.inputs = Append(@, r.m_input)]
    /\ UNCHANGED <<evalVars, ptoks, ptree, parsed, psrc>>

\* a round of the loop of parse()
ParseStatement ==
    /\ psrc.state = "parsing"
    /\ ~Failed(psrc.p)
    /\ peek_token(psrc.p) # nullptr
    /\ psrc.count < MaxRounds
    /\ psrc' = parse_round(psrc)
    /\ UNCHANGED <<evalVars, ptoks, ptree, parsed, tokenizer>>

\* parse() returns the Program
ParseReturn ==
    /\ psrc.state = "parsing"
    /\ ~Failed(psrc.p)
    /\ peek_token(psrc.p) = nullptr
    /\ psrc' = [psrc EXCEPT !.state = "parsed"]
    /\ prog' = Program(psrc.statements, psrc.functions)
    /\ UNCHANGED <<ctx, stack, ret, result, flows, last, steps, ptoks, ptree, parsed,
                   tokenizer>>

\* *program == *other of a host that has another Program and compares the two;
\* other and equal are what it compared with and what the comparison gave
ProgramEquals ==
    /\ psrc.state = "parsed"
    /\ result.status = "idle"
    /\ \E other \in Others(prog) :
           psrc' = [psrc EXCEPT !.state = "compared", !.other = other,
                                !.equal = Program_equals(prog, other)]
    /\ UNCHANGED <<evalVars, ptoks, ptree, parsed, tokenizer>>

\* Context(program), define e, Evaluator::eval()
EvalProgram ==
    /\ psrc.state = "parsed"
    /\ result.status = "idle"
    /\ ctx' = define(Context(prog), "e", Integer(10))
    /\ stack' = <<Activation("eval", nullptr, ctx')>>
    /\ result' = [status |-> "running", value |-> 0]
    /\ last' = [top |-> Activation("host", nullptr, ctx'), ret |-> NoValue, did |-> "call"]
    /\ UNCHANGED <<prog, ret, flows, steps, parseVars>>

\* the step n of the topmost activation: a throw unwinds the stack to the host
Do(n) ==
    /\ ctx' = n.c
    /\ last' = [top |-> Top(stack), ret |-> ret,
                did |-> IF Failed(n.c) THEN "throw"
                        ELSE IF Len(n.s) < Len(stack) THEN "return" ELSE "call"]
    /\ IF Failed(n.c)
       THEN /\ stack' = <<>>
            /\ ret' = NoValue
            /\ result' = [status |-> "error", value |-> 0]
       ELSE /\ stack' = n.s
            /\ ret' = n.r
            /\ result' = IF n.s = <<>> THEN [status |-> "returned", value |-> n.r.v]
                         ELSE result

Eval ==
    /\ Running
    /\ Top(stack).fn = "eval"
    /\ Do(eval(ctx, stack, ret))
    /\ flows' = IF ret.tag = "flow" THEN Append(flows, ret) ELSE flows
    /\ UNCHANGED <<prog, steps, parseVars>>

EvalStatement ==
    /\ Running
    /\ Top(stack).fn \in {"BreakStmt", "ContinueStmt", "EmptyStmt", "FnStmt"}
    /\ Do(eval_Statement(ctx, stack, ret))
    /\ UNCHANGED <<prog, flows, steps, parseVars>>

EvalReturnStatement ==
    /\ Running
    /\ Top(stack).fn = "ReturnStmt"
    /\ Do(eval_ReturnStatement(ctx, stack, ret))
    /\ UNCHANGED <<prog, flows, steps, parseVars>>

EvalLetStatement ==
    /\ Running
    /\ Top(stack).fn = "LetStmt"
    /\ Do(eval_LetStatement(ctx, stack, ret))
    /\ UNCHANGED <<prog, flows, steps, parseVars>>

EvalIfStatement ==
    /\ Running
    /\ Top(stack).fn = "IfStmt"
    /\ Do(eval_IfStatement(ctx, stack, ret))
    /\ UNCHANGED <<prog, flows, steps, parseVars>>

EvalForStatement ==
    /\ Running
    /\ Top(stack).fn = "ForStmt"
    /\ steps < MaxSteps
    /\ Do(eval_ForStatement(ctx, stack, ret))
    /\ steps' = steps + 1
    /\ UNCHANGED <<prog, flows, parseVars>>

EvalBlockStatement ==
    /\ Running
    /\ Top(stack).fn = "BlockStmt"
    /\ Do(eval_BlockStatement(ctx, stack, ret))
    /\ UNCHANGED <<prog, flows, steps, parseVars>>

EvalExpressionStatement ==
    /\ Running
    /\ Top(stack).fn = "ExprStmt"
    /\ Do(eval_ExpressionStatement(ctx, stack, ret))
    /\ UNCHANGED <<prog, flows, steps, parseVars>>

EvalExpression ==
    /\ Running
    /\ Top(stack).fn \in {"IndexExpr", "AccessExpr", "ArrayExpr"}
    /\ Do(eval_Expression(ctx, stack, ret))
    /\ UNCHANGED <<prog, flows, steps, parseVars>>

EvalLiteralExpression ==
    /\ Running
    /\ Top(stack).fn = "LiteralExpr"
    /\ Do(eval_LiteralExpression(ctx, stack, ret))
    /\ UNCHANGED <<prog, flows, steps, parseVars>>

EvalVariableExpression ==
    /\ Running
    /\ Top(stack).fn \in {"VariableExpr", "EnvVariableExpr"}
    /\ Do(IF Top(stack).fn = "VariableExpr" THEN eval_VariableExpression(ctx, stack, ret)
          ELSE eval_EnvVariableExpression(ctx, stack, ret))
    /\ UNCHANGED <<prog, flows, steps, parseVars>>

EvalBinaryExpression ==
    /\ Running
    /\ Top(stack).fn = "BinaryExpr"
    /\ \E undefined \in DivisionsByZero :
           Do(divided(eval_BinaryExpression(ctx, stack, ret), ctx, stack, undefined))
    /\ UNCHANGED <<prog, flows, steps, parseVars>>

EvalPrefixExpression ==
    /\ Running
    /\ Top(stack).fn = "PrefixExpr"
    /\ Do(eval_PrefixExpression(ctx, stack, ret))
    /\ UNCHANGED <<prog, flows, steps, parseVars>>

EvalPostfixExpression ==
    /\ Running
    /\ Top(stack).fn = "PostfixExpr"
    /\ Do(eval_PostfixExpression(ctx, stack, ret))
    /\ UNCHANGED <<prog, flows, steps, parseVars>>

EvalCallExpression ==
    /\ Running
    /\ Top(stack).fn = "CallExpr"
    /\ Do(eval_CallExpression(ctx, stack, ret))
    /\ UNCHANGED <<prog, flows, steps, parseVars>>

EvalCall ==
    /\ Running
    /\ Top(stack).fn = "eval_call"
    /\ steps < MaxSteps
    /\ Do(eval_call(ctx, stack, ret))
    /\ steps' = steps + 1
    /\ UNCHANGED <<prog, flows, parseVars>>

Next ==
    \/ ParseExpression
    \/ EvalParsed
    \/ TokenizerNext
    \/ ParseStatement
    \/ ParseReturn
    \/ ProgramEquals
    \/ EvalProgram
    \/ Eval
    \/ EvalStatement
    \/ EvalReturnStatement
    \/ EvalLetStatement
    \/ EvalIfStatement
    \/ EvalForStatement
    \/ EvalBlockStatement
    \/ EvalExpressionStatement
    \/ EvalExpression
    \/ EvalLiteralExpression
    \/ EvalVariableExpression
    \/ EvalBinaryExpression
    \/ EvalPrefixExpression
    \/ EvalPostfixExpression
    \/ EvalCallExpression
    \/ EvalCall

Spec == Init /\ [][Next]_vars

(***************************************************************************)
(* Properties.                                                             *)
(***************************************************************************)
\* the Object the Evaluator returned to the host
ReturnedObject == ctx.heap[result.value]

\* the run is the evaluation of a Program by Evaluator::eval()
ProgramRun == ptree = nullptr

\* the programs of TestProgram and of the specification's examples give the
\* values expected of them
TestsPass ==
    \A t \in Tests :
        prog = t.program /\ result.status \in {"returned", "error"} =>
            result.status = "returned" /\ ReturnedObject = t.expected

\* C1: eval() runs the top-level statements in order; the first statement to
\* give a Return signal, from whatever depth, ends the run with the value of
\* that signal, no later statement being run; if no statement gives Return the
\* run ends with Null.
C1_FirstReturnEndsProgram ==
    ProgramRun =>
        /\ Len(flows) <= Len(prog.statements)
        /\ Len(stack) >= 2 => stack[2].node = prog.statements[Len(flows) + 1]
        /\ \A i \in 1..Len(flows) :
               flows[i].k = "Return" =>
                   /\ i = Len(flows)
                   /\ stack = <<>>
                   /\ result = [status |-> "returned", value |-> flows[i].v]
        /\ result.status = "returned" /\ (flows = <<>> \/ flows[Len(flows)].k # "Return") =>
               /\ Len(flows) = Len(prog.statements)
               /\ ReturnedObject = Null

\* a Return from inside an if, at the second of three statements, ended the run
C1_Witness ==
    /\ ProgramRun
    /\ result.status = "returned"
    /\ Len(prog.statements) = 3
    /\ Len(flows) = 2
    /\ flows[1].k = "None"
    /\ flows[2].k = "Return"
    /\ prog.statements[2].kind = "IfStmt"
    /\ ReturnedObject = Integer(9)

\* the Evaluator has given the host a Value or an exception
Finished == result.status \in {"returned", "error"}

\* the tree has literals and binary operators only
RECURSIVE BinaryOnly(_)
BinaryOnly(tree) ==
    CASE tree.kind = "BinaryExpr" -> BinaryOnly(tree.left) /\ BinaryOnly(tree.right)
      [] tree.kind = "LiteralExpr" -> TRUE
      [] OTHER -> FALSE

\* the run evaluated the text of expression to the Object value
EvaluatesTo(expression, value) ==
    ptree = expression /\ Finished => result.status = "returned" /\ ReturnedObject = value

\* C2: the text of an expression of literals, parentheses and binary operators
\* parses to the tree in which an operator of a higher level of the precedence
\* table binds tighter than a neighbour of a lower level, operators of one level
\* group left to right, and parentheses override both (the tree of which
\* Unparse writes the text); so 2 + 3 * 5 is 17, (2 + 3) * 5 is 25,
\* 4 * (6 - (2 + 1)) is 12 and 8 - 3 - 2 is 3.
C2_PrecedenceAndAssociativity ==
    /\ ~ProgramRun /\ parsed.done /\ BinaryOnly(ptree) =>
           /\ ~Failed(parsed.p)
           /\ peek_token(parsed.p) = nullptr
           /\ parsed.node = ptree
    /\ EvaluatesTo(Examples.sum_product, Integer(17))
    /\ EvaluatesTo(Examples.product_sum, Integer(25))
    /\ EvaluatesTo(Examples.nested, Integer(12))
    /\ EvaluatesTo(Examples.differences, Integer(3))

\* 4 * (6 - (2 + 1)) was parsed and evaluated
C2_Witness ==
    /\ ptree = Examples.nested
    /\ parsed.done
    /\ parsed.node = ptree
    /\ result.status = "returned"
    /\ ReturnedObject = Integer(12)

\* C3: a prefix operator binds tighter than every binary operator: the text of
\* a tree in which the operand of - or ! is a literal, a variable or another
\* prefix expression (a binary operand being parenthesised) parses to that
\* tree; so -1 + 2 is (-1) + 2 and evaluates to 1, and !a && b is (!a) && b.
C3_PrefixBindsTightest ==
    /\ ~ProgramRun /\ parsed.done =>
           /\ ~Failed(parsed.p)
           /\ parsed.node = ptree
    /\ EvaluatesTo(Examples.negated_sum, Integer(1))

\* the Program prog has run to the Object value
ProgramGives(program, value) ==
    prog = program /\ Finished => result.status = "returned" /\ ReturnedObject = value

\* the topmost activation is that of a for statement, at the place `at`
ForAt(at) == Running /\ Top(stack).fn = "ForStmt" /\ Top(stack).at = at

\* the step: the topmost activation goes to `at` and calls eval(node)
Calls(at, node) ==
    /\ result' = result
    /\ Len(stack') = Len(stack) + 1
    /\ SubSeq(stack', 1, Len(stack) - 1) = Pop(stack)
    /\ stack'[Len(stack)].node = Top(stack).node
    /\ stack'[Len(stack)].at = at
    /\ stack'[Len(stack')].node = node
    /\ stack'[Len(stack')].at = "start"

\* the step: the topmost activation returns r to its caller
Returns(r) ==
    /\ result' = result
    /\ stack' = Pop(stack)
    /\ ret' = r

\* where a for statement goes on from the top of its loop
LoopTop(statement) == IF statement.condition # nullptr THEN "condition" ELSE "body"

C4_Step ==
    LET statement == Top(stack).node
    IN /\ ForAt("body") /\ ret.k \in {"Continue", "None"} =>
              IF statement.increment # nullptr
              THEN Calls("increment", statement.increment)
              ELSE Calls(LoopTop(statement), statement[LoopTop(statement)])
       /\ ForAt("increment") =>
              Calls(LoopTop(statement), statement[LoopTop(statement)])

\* C4: when the body of a for loop gives Continue or None, the increment is
\* evaluated, once, and then the condition is tested again (the loop goes on);
\* the for statement never gives Continue to its caller; so
\* for (j = 0; j < 3; j = j + 1) { continue; } ends with j == 3.
C4_ContinueRunsIncrement ==
    /\ [][C4_Step]_vars
    /\ [](last.top.fn = "ForStmt" /\ last.did = "return" => ret.k \in {"None", "Return"})
    /\ [](ProgramGives(TestContinue, Integer(3)))

\* the body gave Continue and the loop has called its increment
C4_Witness ==
    /\ Running
    /\ last.top.fn = "ForStmt"
    /\ last.top.at = "body"
    /\ last.ret.k = "Continue"
    /\ last.did = "call"
    /\ stack[Len(stack) - 1].at = "increment"
    /\ Top(stack).node = last.top.node.increment

C5_Step ==
    /\ ForAt("body") /\ ret.k = "Break" =>
           ctx' = ctx /\ Returns(ControlFlow("None", 0))
    /\ Running /\ ret.k = "Break" /\ Top(stack).fn = "BlockStmt" =>
           ctx'.frames = Pop(ctx.frames) /\ Returns(ret)
    /\ Running /\ ret.k = "Break" /\ Top(stack).fn = "IfStmt" =>
           ctx' = ctx /\ Returns(ret)
    /\ /\ Running
       /\ last.top.fn = "ForStmt" /\ last.did = "return" /\ last.ret.k = "Break"
       /\ Top(stack).fn = "BlockStmt"
       /\ Top(stack).i <= Len(Top(stack).node.statements)
       => Calls("loop", Top(stack).node.statements[Top(stack).i])

\* C5: when the body of a for loop gives Break, a block or an if that the
\* signal passes on its way stops there and hands it on, the loop returns at
\* once, evaluating neither its increment nor anything else, and gives None, so
\* that its caller goes on with the next statement and an enclosing loop keeps
\* running.
C5_BreakLeavesLoop ==
    /\ [][C5_Step]_vars
    /\ [](last.top.fn = "ForStmt" /\ last.did = "return" => ret.k \in {"None", "Return"})
    /\ [](ProgramGives(TestBreak, Integer(3)))
    /\ [](ProgramGives(TestBreakSum, Integer(3)))
    /\ [](ProgramGives(TestNestedBreak, Integer(2)))

\* the inner loop was left by Break and the block of the outer loop goes on
C5_Witness ==
    /\ Running
    /\ prog = TestNestedBreak
    /\ last.top.fn = "ForStmt"
    /\ last.ret.k = "Break"
    /\ last.did = "return"
    /\ ret = ControlFlow("None", 0)
    /\ Top(stack).fn = "BlockStmt"
    /\ Top(stack).i = 2
    /\ stack[Len(stack) - 1].fn = "ForStmt"


\* the topmost activation is that of eval_call, at the place `at`
CallAt(at) == Running /\ Top(stack).fn = "eval_call" /\ Top(stack).at = at

C6_Step ==
    LET fn == Top(stack).node
        args == Top(stack).vals
        n == Len(ctx.frames)
    IN /\ CallAt("start") /\ Len(fn.params) = Len(args) =>
              /\ Len(ctx'.frames) = n + 1
              /\ SubSeq(ctx'.frames, 1, n) = ctx.frames
              /\ DOMAIN ctx'.frames[n + 1] = {fn.params[i] : i \in 1..Len(fn.params)}
              /\ \A i \in 1..Len(fn.params) : ctx'.frames[n + 1][fn.params[i]] = args[i]
              /\ Calls("body", fn.body)
       /\ /\ Running
          /\ ret.tag = "flow" /\ ret.k = "Return"
          /\ Top(stack).fn \in {"BlockStmt", "IfStmt"} \/ ForAt("body")
          => Returns(ret)
       /\ CallAt("body") =>
              /\ ctx'.frames = Pop(ctx.frames)
              /\ result' = result
              /\ stack' = Pop(stack)
              /\ ret'.tag = "value"
              /\ IF ret.k = "Return" THEN ret'.v = ret.v ELSE ctx'.heap[ret'.v] = Null
       /\ Running /\ Top(stack).fn = "CallExpr" /\ Top(stack).at = "eval_call" =>
              ctx' = ctx /\ Returns(ret)

\* C6: a call of a user function with as many arguments as parameters pushes
\* one new frame in which each parameter is bound to the argument Value of its
\* position, and runs the body there; a Return met in the body passes the
\* blocks, ifs and loops around it, and its value is the value of the call
\* expression; a body that ends without Return gives Null; the frame is the
\* invocation's own, so fib(10) is 55.
C6_CallBindsParameters ==
    /\ [][C6_Step]_vars
    /\ [](ProgramGives(TestCall, Integer(1)))
    /\ [](ProgramGives(TestAdd, Integer(3)))
    /\ [](ProgramGives(TestFib, Integer(55)))

\* fib is running inside fib: two invocations, each with its own n
C6_Witness ==
    /\ CallAt("body")
    /\ prog = TestFib
    /\ stack[2].fn \in {"ReturnStmt"}
    /\ \E i \in 1..(Len(stack) - 1) :
           /\ stack[i].fn = "eval_call"
           /\ stack[i].at = "body"
    /\ \E i, j \in 1..Len(ctx.frames) :
           /\ i < j
           /\ "n" \in DOMAIN ctx.frames[i]
           /\ "n" \in DOMAIN ctx.frames[j]
           /\ ctx.heap[ctx.frames[i]["n"]] = Integer(10)
           /\ ctx.heap[ctx.frames[j]["n"]] = Integer(9)
    /\ ret.tag = "flow"
    /\ ret.k = "Return"

C7_Step ==
    LET fn == Top(stack).node
        args == Top(stack).vals
    IN CallAt("start") /\ Len(fn.params) # Len(args) =>
           /\ result'.status = "error"
           /\ stack' = <<>>
           /\ ctx'.frames = ctx.frames
           /\ ctx'.frames = Top(stack).pre

\* C7: a call of a user function with a number of arguments other than its
\* number of parameters throws: no frame is pushed, no parameter bound and no
\* statement of the body run, and the frames are those from before the call.
C7_ArityMismatchThrows ==
    /\ [][C7_Step]_vars
    /\ [](last.top.fn = "eval_call" /\ last.did = "throw" =>
              /\ result.status = "error"
              /\ Len(last.top.node.params) # Len(last.top.vals)
              /\ ctx.frames = last.top.pre)

\* f, of one parameter, was called with two arguments
C7_Witness ==
    /\ result.status = "error"
    /\ last.top.fn = "eval_call"
    /\ last.did = "throw"
    /\ last.top.node.name = "f"
    /\ Len(last.top.node.params) = 1
    /\ Len(last.top.vals) = 2
    /\ ctx.frames = last.top.pre
    /\ stack = <<>>

\* C8: when a let statement has run, the innermost frame binds its name to the
\* value of its expression (to Null when it has none), whatever the frames held
\* before; a read of the name gives that value and the frames below the
\* innermost are as they were.
C8_LetBindsInnermost ==
    LET statement == last.top.node
        n == Len(ctx.frames)
    IN last.top.fn = "LetStmt" /\ last.did = "return" =>
           /\ statement.name \in DOMAIN ctx.frames[n]
           /\ lookup(ctx.frames, statement.name) = ctx.frames[n][statement.name]
           /\ IF statement.value # nullptr
              THEN ctx.frames[n][statement.name] = last.ret.v
              ELSE ctx.heap[ctx.frames[n][statement.name]] = Null
           /\ Len(last.top.pre) = n
           /\ \A j \in 1..(n - 1) : ctx.frames[j] = last.top.pre[j]

\* the names that the statements run by the block activation b declared with let
Declared(b) ==
    {b.node.statements[k].name :
        k \in {k \in 1..(b.i - 1) : b.node.statements[k].kind = "LetStmt"}}

\* no assignment and no postfix operator was applied to the binding of name in
\* frame j since the activation b was called
NotWritten(b, j, name) ==
    \A k \in (b.w + 1)..Len(ctx.writes) : ctx.writes[k] # [frame |-> j, name |-> name]

\* C9: when a block has been left, a name that it declared with let resolves as
\* it did before the block: to the binding of the enclosing frame that declared
\* it, holding the value it had unless it was assigned to, or to no binding.
C9_LetEndsWithBlock ==
    LET b == last.top
    IN b.fn = "BlockStmt" /\ last.did = "return" =>
           /\ Len(ctx.frames) = Len(b.pre)
           /\ \A name \in Declared(b) :
                  LET j == FrameOf(b.pre, name)
                  IN /\ FrameOf(ctx.frames, name) = j
                     /\ j # 0 /\ NotWritten(b, j, name) =>
                            ctx.heap[ctx.frames[j][name]] = b.old[j][name]

\* the topmost activation is that of an assignment whose operands are evaluated
AssignAt ==
    /\ Running
    /\ Top(stack).fn = "BinaryExpr"
    /\ Top(stack).at = "right"
    /\ Top(stack).node.op = "Assign"
    /\ Top(stack).node.left.kind = "VariableExpr"

C10_Step ==
    LET name == Top(stack).node.left.name
        j == FrameOf(ctx.frames, name)
    IN AssignAt =>
           /\ ctx'.env = ctx.env
           /\ ctx'.heap = ctx.heap
           /\ IF j # 0
              THEN /\ Len(ctx'.frames) = Len(ctx.frames)
                   /\ \A k \in 1..Len(ctx.frames) :
                          /\ DOMAIN ctx'.frames[k] = DOMAIN ctx.frames[k]
                          /\ \A other \in DOMAIN ctx.frames[k] :
                                 ctx'.frames[k][other] =
                                     IF k = j /\ other = name THEN ret.v
                                     ELSE ctx.frames[k][other]
                   /\ Returns(ValueResult(ret.v))
              ELSE /\ result'.status = "error"
                   /\ ctx'.frames = ctx.frames

\* C10: an assignment to a name rebinds it, to the value of the right operand,
\* in the innermost frame that declares it, changes no other binding and gives
\* that value; when no frame declares the name it throws, and no binding of the
\* frames or of the environment is made or changed.
C10_AssignRebindsInnermost ==
    /\ [][C10_Step]_vars
    /\ [](last.top.fn = "VariableExpr" /\ last.did = "throw" =>
              /\ result.status = "error"
              /\ ctx.frames = last.top.pre
              /\ last.top.node.name \notin DOMAIN ctx.env
              /\ FrameOf(ctx.frames, last.top.node.name) = 0)

\* x, declared by two frames, was assigned 6: the inner binding is 6 and the
\* outer one still 1
C10_Witness ==
    /\ Running
    /\ last.top.fn = "BinaryExpr"
    /\ last.top.node.op = "Assign"
    /\ last.did = "return"
    /\ Len(ctx.frames) = 2
    /\ "x" \in DOMAIN ctx.frames[1]
    /\ "x" \in DOMAIN ctx.frames[2]
    /\ ctx.heap[ctx.frames[1]["x"]] = Integer(1)
    /\ ctx.heap[ctx.frames[2]["x"]] = Integer(6)
    /\ ret = ValueResult(ctx.frames[2]["x"])

\* the innermost activation of eval_call that is running its body, 0 when the
\* statement being run belongs to no function
Callee ==
    LET S == {i \in 1..Len(stack) : stack[i].fn = "eval_call" /\ stack[i].at = "body"}
    IN IF S = {} THEN 0 ELSE CHOOSE i \in S : \A j \in S : j <= i

\* frame j is the outermost frame or a frame of the running function: one
\* pushed since the function was called
Lexical(j) == j = 1 \/ j > Len(stack[Callee].pre)

\* C11: in the body of a user function a name that is read or assigned
\* resolves to a frame of that function (its parameters and locals), to the
\* outermost frame, or to no frame (the environment or an error): never to a
\* frame of the caller or of a block that was active where the call was made.
C11_LexicalResolution ==
    LET name == IF Top(stack).fn = "VariableExpr" THEN Top(stack).node.name
                ELSE Top(stack).node.left.name
        j == FrameOf(ctx.frames, name)
    IN Running /\ Callee # 0 /\ (Top(stack).fn = "VariableExpr" \/ AssignAt) =>
           j = 0 \/ Lexical(j)

\* the Objects of the environment's bindings
Environment == [name \in DOMAIN ctx.env |-> ctx.heap[ctx.env[name]]]

\* C12: whatever statements the program runs, the environment keeps the
\* bindings that Context::define gave it: here e, defined as 10 before eval().
C12_EnvironmentImmutable ==
    ProgramRun /\ result.status # "idle" => Environment = [name \in {"e"} |-> Integer(10)]

\* C13: a binding made by let, by assignment or by passing an argument holds a
\* copy of a primitive value: when ++ or -- has been applied to a variable, the
\* Object of every other binding of the frames is the one it was before.
C13_BindingCopies ==
    LET name == last.top.node.expr.name
        j == FrameOf(ctx.frames, name)
    IN /\ last.top.fn = "PostfixExpr"
       /\ last.did = "return"
       /\ last.top.node.expr.kind = "VariableExpr"
       => \A k \in 1..Len(ctx.frames) :
              \A other \in DOMAIN ctx.frames[k] :
                  <<k, other>> # <<j, name>> =>
                      ctx.heap[ctx.frames[k][other]] = last.top.old[k][other]

\* the topmost activation is that of ++ or -- on a variable whose Value it has
PostfixAt ==
    /\ Running
    /\ Top(stack).fn = "PostfixExpr"
    /\ Top(stack).at = "expr"
    /\ Top(stack).node.expr.kind = "VariableExpr"

C14_Step ==
    LET expression == Top(stack).node
        variable == get_variable(ctx, expression.expr.name).v
        before == ctx.heap[variable]
        d == IF expression.op = "Increase" THEN 1 ELSE -1
    IN PostfixAt =>
           /\ ret.v = variable
           /\ ctx'.frames = ctx.frames
           /\ ctx'.env = ctx.env
           /\ IF before.kind = "Integer"
              THEN /\ ctx'.heap[variable] = Integer(before.i + d)
                   /\ Returns(ValueResult(variable))
              ELSE /\ result'.status = "error"
                   /\ ctx'.err = "InvalidOperate"
                   /\ ctx'.heap = ctx.heap

\* C14: x++ and x-- on a variable that holds an Integer change its value by +1
\* and -1 and give the Value of the variable, which holds the new number; on a
\* variable that holds anything else they throw InvalidOperate and no binding
\* and no Object changes.  So a loop that counts with i++ from 0 while i < 10
\* ends with i at 10.
C14_PostfixChangesByOne ==
    /\ [][C14_Step]_vars
    /\ [](ProgramGives(TestFor, Integer(10)))

\* i++ has made i 1 in the loop of TestFor and given the Value of i
C14_Witness ==
    /\ prog = TestFor
    /\ last.top.fn = "PostfixExpr"
    /\ last.did = "return"
    /\ last.top.old[1]["i"] = Integer(0)
    /\ ctx.heap[ctx.frames[1]["i"]] = Integer(1)
    /\ ret = ValueResult(ctx.frames[1]["i"])

\* ++ was applied to a variable holding Null and threw
C14_WitnessTypeError ==
    /\ result.status = "error"
    /\ last.top.fn = "PostfixExpr"
    /\ last.did = "throw"
    /\ ctx.err = "InvalidOperate"
    /\ ctx.heap[last.ret.v] = Null

\* the topmost activation is that of a && or a ||, at the place `at`
LogicAt(at) ==
    /\ Running
    /\ Top(stack).fn = "BinaryExpr"
    /\ Top(stack).node.op \in {"LogicAnd", "LogicOr"}
    /\ Top(stack).at = at

C15_Step ==
    LET expression == Top(stack).node
    IN /\ LogicAt("start") => ctx' = ctx /\ Calls("left", expression.left)
       /\ LogicAt("left") => ctx' = ctx /\ Calls("right", expression.right)
       /\ LogicAt("right") => stack' = Pop(stack) \/ result'.status = "error"

\* C15: a && b and a || b evaluate a, then b whatever a gave, and only then
\* apply the operator; so the i++ of a right operand takes place also when the
\* left operand is false (for &&) or true (for ||).
C15_BothOperandsEvaluated ==
    /\ [][C15_Step]_vars
    /\ [](ProgramGives(TestEager, Integer(2)))

\* the left operand of && gave false and the right operand is called
C15_Witness ==
    /\ Running
    /\ prog = TestEager
    /\ last.top.fn = "BinaryExpr"
    /\ last.top.node.op = "LogicAnd"
    /\ last.top.at = "left"
    /\ ctx.heap[last.ret.v] = Boolean(FALSE)
    /\ last.did = "call"
    /\ Top(stack).node = last.top.node.right

\* the run is Parser::parse() of a text, and the evaluation of its Program
SourceRun == psrc.state # "none"

\* the tokens the Parser has taken from the text: all but m_peek_token and
\* those m_tokenizer has still to give
Consumed ==
    Len(ptoks) - Len(psrc.p.m_tokenizer)
        - (IF peek_token(psrc.p) = nullptr THEN 0 ELSE 1)

\* C16: parse() terminates on every finite text: each statement it has parsed
\* at top level has consumed at least one token, so there are never more
\* statements parsed than tokens consumed, and no loop over the statements of
\* a block goes round without consuming a token.
C16_ParseTerminates ==
    SourceRun =>
        /\ psrc.count <= Consumed
        /\ ~Loops(psrc.p)

\* C17: a text that ends where a token is still required is a parse error,
\* never a Program, and no text makes the Parser read a field of the Token
\* that is not there (a read through the null m_peek_token).
C17_EndOfInputIsParseError ==
    SourceRun =>
        /\ ~Trapped(psrc.p)
        /\ psrc.text \in Truncated => psrc.state # "parsed"

\* C18: a list in which a separator stands just before the terminator, as in
\* f(1,) or [1, 2,] or fn f(a,), is a parse error: the statement that holds it
\* is never parsed.
C18_TrailingSeparatorRejected ==
    SourceRun /\ psrc.text \in TrailingSeparator => psrc.count = 0

\* C19: of two declarations of one name the function table of the Program
\* keeps the later one, and a call of the name runs the later body:
\* fn f() { return 1; } fn f() { return 2; } return f(); has f bound to the
\* declaration that returns 2, and gives 2.
C19_LastDeclarationWins ==
    SourceRun /\ psrc.text = Redeclared =>
        /\ psrc.state = "parsed" =>
               prog.functions["f"] =
                   FnStatement("f", <<>>,
                               BlockStatement(<<ReturnStatement(IntegerLiteral(2))>>))
        /\ Finished => result.status = "returned" /\ ReturnedObject = Integer(2)

\* C20: once next() has returned the end-of-file Token, every later call
\* returns end-of-file too and leaves m_input as the earlier call left it.
C20_EofIsSticky ==
    \A i, j \in 1..Len(tokenizer.tokens) :
        i < j /\ tokenizer.tokens[i] = Eof =>
            /\ tokenizer.tokens[j] = Eof
            /\ tokenizer.inputs[j] = tokenizer.inputs[i]

\* the Tokenizer runs on a text written from lexemes
LexicalRun == tokenizer.run /\ tokenizer.lexical

\* C21: for a text of valid lexemes with optional whitespace between them, the
\* calls of next() return the lexemes in source order, each with its kind and
\* exactly its characters, and then Eof
C21_TokensInSourceOrder ==
    LexicalRun =>
        \A i \in 1..Len(tokenizer.tokens) :
            tokenizer.tokens[i] = IF i <= Len(tokenizer.lexemes) THEN tokenizer.lexemes[i]
                                  ELSE Eof

\* the statement of C21 for the texts where no Integer lexeme is followed by a '.'
C21_ApartFromIntegerDot ==
    /\ LexicalRun
    /\ \A i \in 1..Len(tokenizer.lexemes) - 1 :
          tokenizer.lexemes[i].kind = "Integer" => tokenizer.lexemes[i + 1].kind # "Dot"
    => C21_TokensInSourceOrder

\* C22: a token of kind Float has a '.' with a digit after it: digits with a '.'
\* and no digit after it are an Integer token, the '.' left for the next call
C22_FloatNeedsFraction ==
    tokenizer.run =>
        \A i \in 1..Len(tokenizer.tokens) :
            tokenizer.tokens[i].kind = "Float" =>
                \E k \in 1..Len(tokenizer.tokens[i].text) - 1 :
                    /\ tokenizer.tokens[i].text[k] = "."
                    /\ tokenizer.tokens[i].text[k + 1] \in isdigit

\* the characters between the quotes of a text of StringLiterals
Body(text) == SubSeq(text, Len(Word.return) + 3, Len(text) - 2)

\* the value a string literal of the characters view stands for: one character
\* for each of the escapes \n \t \r \\, a backslash and the character for any
\* other escape, every other character itself
RECURSIVE Value_of(_)
Value_of(view) ==
    IF view = <<>> THEN <<>>
    ELSE IF Head(view) = "\\"
    THEN (CASE view[2] = "n" -> <<"\n">>
            [] view[2] = "t" -> <<"\t">>
            [] view[2] = "r" -> <<"\r">>
            [] view[2] = "\\" -> <<"\\">>
            [] OTHER -> <<"\\", view[2]>>) \o Value_of(SubSeq(view, 3, Len(view)))
    ELSE <<Head(view)>> \o Value_of(Tail(view))

\* C23: the value of a parsed string literal has one character for each escape
\* \n \t \r \\ of the source, a backslash and the character once for any other
\* escape, and every unescaped character once
C23_EscapesDecodedOnce ==
    SourceRun /\ psrc.text \in StringLiterals /\ psrc.state = "parsed" =>
        prog.statements = <<ReturnStatement(StringLiteral(Value_of(Body(psrc.text))))>>

\* the topmost activation is that of a / or a %, both operands evaluated
DivisionAt ==
    /\ Running
    /\ Top(stack).fn = "BinaryExpr"
    /\ Top(stack).node.op \in {"Divide", "Modulo"}
    /\ Top(stack).at = "right"

\* q is a / b truncated toward zero, for b # 0: q * b is between 0 and a, and
\* less than |b| away from a
Truncated_quotient(q, a, b) ==
    LET abs(x) == IF x < 0 THEN -x ELSE x
    IN /\ abs(q * b) <= abs(a)
       /\ abs(a - q * b) < abs(b)
       /\ a > 0 => q * b >= 0
       /\ a < 0 => q * b <= 0

\* the step: the expression gives a new Value to the one that evaluated it
GivesNew ==
    /\ result'.status # "error"
    /\ stack' = Pop(stack)
    /\ ret' = ValueResult(Len(ctx.heap) + 1)

C24_Step ==
    LET op == Top(stack).node.op
        a == ctx.heap[Top(stack).vals[1]]
        b == ctx.heap[ret.v]
        value == ctx'.heap[ret'.v]
    IN /\ DivisionAt /\ a.kind = "Integer" /\ b.kind = "Integer" /\ b.i # 0 =>
            /\ GivesNew
            /\ value.kind = "Integer"
            /\ op = "Divide" => Truncated_quotient(value.i, a.i, b.i)
            /\ op = "Modulo" =>
                  \E q \in -(a.i * a.i)..(a.i * a.i) :
                      Truncated_quotient(q, a.i, b.i) /\ a.i = q * b.i + value.i
       /\ DivisionAt /\ op = "Divide" /\ Promoted(a, b) /\ double(b).n # 0 =>
            /\ GivesNew
            /\ value.kind = "Float"
            /\ value.n * double(b).n * double(a).d = double(a).n * value.d * double(b).d

\* the program of the text gives the value
TextGives(text, value) ==
    psrc.text = text /\ Finished => result.status = "returned" /\ ReturnedObject = value

C24_WitnessFloat ==
    /\ psrc.text = Division(<<"five_0">>, "/", <<"2">>)
    /\ result.status = "returned"
    /\ ReturnedObject = [kind |-> "Float", n |-> 5, d |-> 2]

\* C25: an Integer division or modulo by zero throws a typed arithmetic error to
\* the caller of eval: the process is not ended by a signal and the operation
\* yields no value
C25_Step ==
    LET a == ctx.heap[Top(stack).vals[1]]
        b == ctx.heap[ret.v]
    IN DivisionAt /\ a.kind = "Integer" /\ b.kind = "Integer" /\ b.i = 0 =>
           /\ result'.status = "error"
           /\ ctx'.err # "SIGFPE"

C25_DivisionByZeroThrows == [][C25_Step]_vars

\* C26: two Programs compare equal exactly when they are the same tree: the same
\* statements with the same names, operators, literals and children, and the
\* same function table.  A Program equals itself parsed once more, and
\* let a = 1; does not equal let b = 1;
C26_EqualityIsStructural ==
    psrc.state = "compared" => (psrc.equal <=> prog = psrc.other)

\* the statement of C26 for the comparison of a Program with itself
C26_Reflexive ==
    psrc.state = "compared" /\ psrc.other = prog => psrc.equal

\* the activations that the claims C27 and C28 are about: a block, a loop and a
\* call of a user function
Scoped == {"BlockStmt", "ForStmt", "eval_call"}

\* the frames that the activation below the activation k pushed before it
\* called k: one for a block and for a call, none for any other
Pushed(k) == IF stack[k].fn \in {"BlockStmt", "eval_call"} THEN 1 ELSE 0

\* C27: a block pushes exactly one frame and pops exactly one on every exit
\* without error, by completion or by a Break, Continue or Return signal: when
\* a block, a loop or a call of a function has returned, the number of frames is
\* the number from before it started, and it is never less than one.
C27_BlockFramesBalanced ==
    /\ Len(ctx.frames) >= 1
    /\ \A k \in 1..(Len(stack) - 1) :
           Len(stack[k + 1].pre) = Len(stack[k].pre) + Pushed(k)
    /\ last.top.fn \in Scoped /\ last.did = "return" =>
           Len(ctx.frames) = Len(last.top.pre)

\* a block inside a loop was left early by a Break signal, its frame popped
C27_Witness ==
    /\ last.top.fn = "BlockStmt"
    /\ last.did = "return"
    /\ last.top.at = "loop"
    /\ last.ret.k = "Break"
    /\ ret.k = "Break"
    /\ Len(ctx.frames) = Len(last.top.pre)
    /\ Len(stack) > 1
    /\ stack[Len(stack)].fn = "ForStmt"

\* C28: when an error is raised inside a block or the body of a function, every
\* frame pushed since the evaluation began is popped before the error reaches
\* the caller: after a failed eval() the Context has as many frames as the one
\* it began with.
C28_ErrorUnwindsFrames ==
    result.status = "error" => Len(ctx.frames) = Len(Stack)

\* apart from the frames of the blocks and calls that the error passed through,
\* which stay: one for each block and each call that was running when it was
\* raised, on top of the frames from before the evaluation
C28_FramesLeftByError ==
    [][result'.status = "error" /\ result.status # "error" =>
          Len(ctx'.frames) = Len(Stack) + Cardinality({k \in 1..Len(stack) :
              /\ stack[k].fn \in {"BlockStmt", "eval_call"}
              /\ stack[k].at # "start"})]_vars

Signals == {"Break", "Continue"}

\* the topmost activation has been handed a Break or a Continue signal
Signalled == Running /\ ret.tag = "flow" /\ ret.k \in Signals

C29_Step ==
    LET statements == ctx.program.statements
        i == Top(stack).i
    IN /\ Signalled /\ CallAt("body") =>
              /\ result'.status # "error"
              /\ stack' = Pop(stack)
              /\ ret'.tag = "value"
              /\ ctx'.heap[ret'.v] = Null
       /\ Signalled /\ Top(stack).fn = "eval" =>
              IF i <= Len(statements) THEN Calls("loop", statements[i])
              ELSE /\ stack' = <<>>
                   /\ result'.status = "returned"
                   /\ ctx'.heap[result'.value] = Null

\* C29: a Break or a Continue signal never crosses the boundary of a call and
\* never ends the program: from the body of a function, outside any loop of the
\* body, it ends the body, the call gives Null and the loop running in the
\* caller is neither left nor skipped; from a top-level statement it is dropped
\* and the next top-level statement runs.
C29_SignalStopsAtCall ==
    /\ [][C29_Step]_vars
    /\ [](Signalled =>
              /\ last.did = "return"
              /\ last.top.fn \in {"BreakStmt", "ContinueStmt", "BlockStmt", "IfStmt"})
    /\ [](ProgramGives(TestSignalInCallee, Integer(2)))

\* stop() was called in the body of a running loop, its body ended by break: the
\* call has given Null and the loop is still in its body
C29_Witness ==
    /\ prog = TestSignalInCallee
    /\ last.top.fn = "eval_call"
    /\ last.top.node.name = "stop"
    /\ last.ret.k = "Break"
    /\ last.did = "return"
    /\ ret.tag = "value"
    /\ ctx.heap[ret.v] = Null
    /\ \E k \in 1..Len(stack) : stack[k].fn = "ForStmt" /\ stack[k].at = "body"

\* a break at the top level was dropped and the next statement called
C29_WitnessTopLevel ==
    /\ last.top.fn = "eval"
    /\ last.ret.tag = "flow"
    /\ last.ret.k = "Break"
    /\ last.did = "call"
    /\ Running
    /\ Top(stack).node.kind = "ReturnStmt"

\* m_input as the call i of next() found it
InputBefore(i) == IF i = 1 THEN tokenizer.text ELSE tokenizer.inputs[i - 1]

\* C30: a call of next() that returns a Token other than Eof, an Invalid one for
\* an unrecognized character included, consumes at least one character of the
\* rest of the input, so that a loop calling next() up to Eof ends.
C30_EveryTokenConsumes ==
    tokenizer.run =>
        \A i \in 1..Len(tokenizer.tokens) :
            tokenizer.tokens[i] # Eof =>
                Len(tokenizer.inputs[i]) < Len(InputBefore(i))

\* the statement of C30 for every Token that is not Invalid with an empty text
C30_ApartFromUnrecognized ==
    tokenizer.run =>
        \A i \in 1..Len(tokenizer.tokens) :
            tokenizer.tokens[i] \notin {Eof, Token("Invalid", <<>>)} =>
                Len(tokenizer.inputs[i]) < Len(InputBefore(i))
====
